---- MODULE Spec2Model ----
(***************************************************************************)
(* A model of the invoice builder: the billing calculations                *)
(* (utils/calculations), the line-item handlers of App, the import         *)
(* normalizers, and the external calls (CSV parse, notes analysis, PDF     *)
(* extraction, polish) that settle beside the user's operations.           *)
(*                                                                         *)
(* JavaScript values.  A numeric field of the program holds a JavaScript   *)
(* value, and the handlers rely on the differences between them (a number  *)
(* 0 is falsy, the string "0" typed in an input is truthy), so a value is  *)
(* a record [k, n, d, s]:                                                  *)
(*   k = "num"   the finite number n/d (d > 0, lowest terms)               *)
(*   k = "nan"   NaN                                                       *)
(*   k = "inf"   +Infinity (n = 1) or -Infinity (n = -1)                   *)
(*   k = "str"   a string holding the decimal text of n/d                  *)
(*   k = "sinf"  the string "Infinity" (n = 1) or "-Infinity" (n = -1)      *)
(*   k = "estr"  the empty string ''                                       *)
(*   k = "text"  the non-empty string of characters s, which starts with   *)
(*               no number (s is <<>> for every other kind)                *)
(*   k = "undef" undefined (an absent field)                               *)
(* Finite numbers are exact rationals.  The sample inputs of the           *)
(* calculations have a denominator that is a power of two and a small      *)
(* magnitude, where the products and quotients the program rounds agree    *)
(* with their IEEE-754 double results on which side of a half they fall.   *)
(* The quotients the handlers store (amount / hours) are kept exact, where *)
(* the program holds the nearest double.                                   *)
(***************************************************************************)
EXTENDS Integers, Sequences, FiniteSets, TLC

VARIABLES
    items,    \* App's items state: the sequence of LineItem records
    rendered, \* the items of the last render, which its handlers close over
    pending,  \* the external calls in flight
    busy,     \* the busy flags that are set: isPdfLoading, isAnalyzing
    outcome,  \* what the last step delivered to the caller of an external call
    call,     \* a pure function under test and its input
    ret       \* its result, once applied

vars == <<items, rendered, pending, busy, outcome, call, ret>>

\* the state of the form
form == <<items, rendered, pending, busy, outcome>>

----------------------------------------------------------------------------
(* Numbers *)

Abs(x) == IF x < 0 THEN -x ELSE x

Sgn(x) == IF x < 0 THEN -1 ELSE IF x > 0 THEN 1 ELSE 0

RECURSIVE Gcd(_, _)
Gcd(a, b) == IF b = 0 THEN a ELSE Gcd(b, a % b)

\* the finite number n/d, d # 0, in lowest terms with a positive denominator
Num(n, d) ==
    LET g == Gcd(Abs(n), Abs(d))
    IN  [k |-> "num", n |-> (Sgn(d) * n) \div g, d |-> Abs(d) \div g, s |-> <<>>]

Int2Num(i) == [k |-> "num", n |-> i, d |-> 1, s |-> <<>>]

Zero == Int2Num(0)

One == Int2Num(1)

NaN == [k |-> "nan", n |-> 0, d |-> 1, s |-> <<>>]

Inf(sign) == [k |-> "inf", n |-> sign, d |-> 1, s |-> <<>>]

Infinity == Inf(1)

\* a string holding the decimal text of n/d
Str(n, d) == [Num(n, d) EXCEPT !.k = "str"]

EmptyStr == [k |-> "estr", n |-> 0, d |-> 1, s |-> <<>>]

\* the string of the characters chars, '' when there are none
Text(chars) ==
    IF chars = <<>> THEN EmptyStr ELSE [k |-> "text", n |-> 0, d |-> 1, s |-> chars]

Undef == [k |-> "undef", n |-> 0, d |-> 1, s |-> <<>>]

IsFinite(v) == v.k = "num"

\* Number(v), and the conversion the operators * and / apply to an operand
ToNumber(v) ==
    CASE v.k \in {"num", "nan", "inf"} -> v
      [] v.k = "str" -> [v EXCEPT !.k = "num"]
      [] v.k = "sinf" -> [v EXCEPT !.k = "inf"]
      [] v.k = "estr" -> Zero
      [] OTHER -> NaN

\* parseFloat(v): undefined, '' and text without a leading number give NaN
ParseFloat(v) ==
    CASE v.k \in {"num", "nan", "inf"} -> v
      [] v.k = "str" -> [v EXCEPT !.k = "num"]
      [] v.k = "sinf" -> [v EXCEPT !.k = "inf"]
      [] OTHER -> NaN

IsNaN(v) == ToNumber(v).k = "nan"

\* the truthiness of v, as tested by || and by if
Truthy(v) ==
    CASE v.k = "num" -> v.n # 0
      [] v.k \in {"nan", "estr", "undef"} -> FALSE
      [] OTHER -> TRUE

\* a || b
Or(a, b) == IF Truthy(a) THEN a ELSE b

\* v === 0
IsZero(v) == v.k = "num" /\ v.n = 0

\* a * b
Mul(a, b) ==
    LET x == ToNumber(a)
        y == ToNumber(b)
    IN  IF x.k = "nan" \/ y.k = "nan" THEN NaN
        ELSE IF x.k = "inf" \/ y.k = "inf"
             THEN IF x.n = 0 \/ y.n = 0 THEN NaN ELSE Inf(Sgn(x.n) * Sgn(y.n))
        ELSE Num(x.n * y.n, x.d * y.d)

\* a / b  (the model holds no negative zero: a zero divisor is +0)
Div(a, b) ==
    LET x == ToNumber(a)
        y == ToNumber(b)
    IN  IF x.k = "nan" \/ y.k = "nan" THEN NaN
        ELSE IF x.k = "inf"
             THEN IF y.k = "inf" THEN NaN
                  ELSE Inf(x.n * (IF y.n < 0 THEN -1 ELSE 1))
        ELSE IF y.k = "inf" THEN Zero
        ELSE IF y.n = 0
             THEN IF x.n = 0 THEN NaN ELSE Inf(Sgn(x.n))
        ELSE Num(x.n * y.d, x.d * y.n)

\* a + b on numbers
Add(a, b) ==
    LET x == ToNumber(a)
        y == ToNumber(b)
    IN  IF x.k = "nan" \/ y.k = "nan" THEN NaN
        ELSE IF x.k = "inf"
             THEN IF y.k = "inf" /\ y.n # x.n THEN NaN ELSE x
        ELSE IF y.k = "inf" THEN y
        ELSE Num(x.n * y.d + y.n * x.d, x.d * y.d)

Neg(a) ==
    LET x == ToNumber(a)
    IN  IF x.k = "nan" THEN NaN ELSE [x EXCEPT !.n = -x.n]

\* a - b
Sub(a, b) == Add(a, Neg(b))

\* Math.abs(a)
MathAbs(a) ==
    LET x == ToNumber(a)
    IN  IF x.k = "nan" THEN NaN ELSE [x EXCEPT !.n = Abs(x.n)]

\* a < b  (false when either side is NaN)
Less(a, b) ==
    LET x == ToNumber(a)
        y == ToNumber(b)
    IN  IF x.k = "nan" \/ y.k = "nan" THEN FALSE
        ELSE IF x.k = "inf" THEN x.n < 0 /\ ~(y.k = "inf" /\ y.n < 0)
        ELSE IF y.k = "inf" THEN y.n > 0
        ELSE x.n * y.d < y.n * x.d

\* a faulty variant of MathRound: Math.floor, the fraction is dropped
MathRoundFloor(a) ==
    LET x == ToNumber(a)
    IN  IF x.k # "num" THEN x ELSE Int2Num(x.n \div x.d)

\* Math.round(a): the nearest integer, a half rounding towards +Infinity
MathRound(a) ==
    LET x == ToNumber(a)
    IN  IF x.k # "num" THEN x ELSE Int2Num((2 * x.n + x.d) \div (2 * x.d))

----------------------------------------------------------------------------
(* utils/calculations *)

calculateLineAmount(hours, rate) == MathRound(Mul(hours, rate))

rateOptions == <<Int2Num(60), Int2Num(65)>>

\* a faulty variant of Candidate: hours below 1 are not raised to 1
CandidateAnyHours(targetAmount, rate) ==
    LET hours == MathRound(Div(targetAmount, rate))
        calculatedAmount == Mul(hours, rate)
    IN  [hours |-> hours, rate |-> rate, amount |-> calculatedAmount,
         diff |-> MathAbs(Sub(targetAmount, calculatedAmount))]

\* one pass of the loop body for `rate`: the candidate and its distance
Candidate(targetAmount, rate) ==
    LET h0 == MathRound(Div(targetAmount, rate))
        hours == IF Less(h0, One) THEN One ELSE h0
        calculatedAmount == Mul(hours, rate)
    IN  [hours |-> hours, rate |-> rate, amount |-> calculatedAmount,
         diff |-> MathAbs(Sub(targetAmount, calculatedAmount))]

\* a faulty variant of Better: <= instead of <, the later rate wins a tie
BetterOrEqual(diff, bestDiff) == ~Less(bestDiff, diff)

\* diff < bestOption.diff
Better(diff, bestDiff) == Less(diff, bestDiff)

RECURSIVE MetricsLoop(_, _, _)
MetricsLoop(targetAmount, i, bestOption) ==
    IF i > Len(rateOptions) THEN bestOption
    ELSE LET c == Candidate(targetAmount, rateOptions[i])
         IN  MetricsLoop(targetAmount, i + 1,
                         IF Better(c.diff, bestOption.diff) THEN c ELSE bestOption)

Metrics(hours, rate, amount) == [hours |-> hours, rate |-> rate, amount |-> amount]

\* a faulty variant of ZeroMetrics: the first rate option
ZeroMetricsFirstRate == Metrics(Zero, rateOptions[1], Zero)

\* the result for targetAmount === 0
ZeroMetrics == Metrics(Zero, Int2Num(65), Zero)

\* a faulty variant of calculateMetricsFromAmount: only the standard rate is tried
calculateMetricsOneRate(targetAmount) ==
    IF IsZero(targetAmount) THEN ZeroMetrics
    ELSE LET c == Candidate(targetAmount, rateOptions[2])
         IN  Metrics(c.hours, c.rate, c.amount)

calculateMetricsFromAmount(targetAmount) ==
    IF IsZero(targetAmount) THEN ZeroMetrics
    ELSE LET best == MetricsLoop(targetAmount, 1,
                         [hours |-> Zero, rate |-> Int2Num(65), amount |-> Zero,
                          diff |-> Infinity])
         IN  Metrics(best.hours, best.rate, best.amount)

RECURSIVE SumAmounts(_)
\* its.reduce((sum, item) => sum + item.amount, 0)
SumAmounts(its) ==
    IF its = <<>> THEN Zero
    ELSE Add(SumAmounts(SubSeq(its, 1, Len(its) - 1)), its[Len(its)].amount)

IsService(item) == item.type = "service"

\* a faulty variant of serviceItems: no filter, every item is taxed
serviceItemsAll(its) == its

\* items.filter(i => i.type === 'service')
serviceItems(its) == SelectSeq(its, IsService)

calculateTotals(its) ==
    LET gross == SumAmounts(its)
        serviceGross == SumAmounts(serviceItems(its))
        gst == MathRound(Mul(serviceGross, Num(15, 100)))
        tax == MathRound(Mul(serviceGross, Num(20, 100)))
    IN  [gross |-> gross, gst |-> gst, tax |-> tax,
         clientToPay |-> Add(gross, gst), net |-> Sub(gross, tax)]

----------------------------------------------------------------------------
(* The calculations applied to sample inputs *)

\* what a step delivers: kind is the external call that completed, result
\* what its caller got (resolved or rejected), external what the external
\* service did, id and text the arguments of a polish call
Outcome(kind, result, external, id, text) ==
    [kind |-> kind, result |-> result, external |-> external, id |-> id,
     text |-> text]

\* no external call completed in the step
NoOutcome == Outcome("none", "none", "none", "", EmptyStr)

NoCall == [fn |-> "none", args |-> <<>>]

NoRet == [done |-> FALSE, val |-> Undef]

\* hours and rates are sampled in quarters and halves, besides the two rates
MaxHoursQ == 12

MaxRateH == 6

\* target amounts are sampled in halves, from -MaxTargetH/2 to MaxTargetH/2
MaxTargetH == 400

MaxTotalsItems == 3

HoursSamples == {Num(n, 4) : n \in 0..MaxHoursQ}

RateSamples == {Num(n, 2) : n \in 0..MaxRateH} \cup {Int2Num(60), Int2Num(65)}

TargetSamples == {Num(n, 2) : n \in -MaxTargetH..MaxTargetH}

TotalsAmountSamples ==
    {Zero, Int2Num(10), Int2Num(50), Int2Num(100), Num(5, 2), Int2Num(-10)}

\* an item of which calculateTotals reads the type and the amount
TotalsItem(type, amount) ==
    [id |-> "t", type |-> type, date |-> EmptyStr, description |-> EmptyStr,
     hours |-> One, rate |-> amount, amount |-> amount]

TotalsItemSamples ==
    {TotalsItem(t, a) : t \in {"service", "expense"}, a \in TotalsAmountSamples}

SeqsUpTo(S, n) == UNION {[1..m -> S] : m \in 0..n}

CalcCalls ==
    {[fn |-> "calculateLineAmount", args |-> <<h, r>>] :
        h \in HoursSamples, r \in RateSamples}
    \cup {[fn |-> "calculateMetricsFromAmount", args |-> <<t>>] : t \in TargetSamples}
    \cup {[fn |-> "calculateTotals", args |-> <<its>>] :
            its \in SeqsUpTo(TotalsItemSamples, MaxTotalsItems)}

CalcInit ==
    /\ call \in CalcCalls
    /\ ret = NoRet
    /\ items = <<>>
    /\ rendered = <<>>
    /\ pending = {}
    /\ busy = {}
    /\ outcome = NoOutcome

ApplyLineAmount ==
    /\ call.fn = "calculateLineAmount"
    /\ ~ret.done
    /\ ret' = [done |-> TRUE, val |-> calculateLineAmount(call.args[1], call.args[2])]
    /\ UNCHANGED <<form, call>>

ApplyMetrics ==
    /\ call.fn = "calculateMetricsFromAmount"
    /\ ~ret.done
    /\ ret' = [done |-> TRUE, val |-> calculateMetricsFromAmount(call.args[1])]
    /\ UNCHANGED <<form, call>>

ApplyTotals ==
    /\ call.fn = "calculateTotals"
    /\ ~ret.done
    /\ ret' = [done |-> TRUE, val |-> calculateTotals(call.args[1])]
    /\ UNCHANGED <<form, call>>

CalcNext == ApplyLineAmount \/ ApplyMetrics \/ ApplyTotals

SpecCalc == CalcInit /\ [][CalcNext]_vars

Returned(fn) == call.fn = fn /\ ret.done

----------------------------------------------------------------------------
(* Properties of the calculations *)

IsInteger(v) == v.k = "num" /\ v.d = 1

\* C1: for non-negative hours and rate, calculateLineAmount(hours, rate) is a
\* whole number nearest to hours*rate (at most a half away from it), and it is 0
\* whenever hours is 0 or rate is 0.
C1_LineAmountRounds ==
    Returned("calculateLineAmount") =>
        LET h == call.args[1]
            r == call.args[2]
        IN  /\ IsInteger(ret.val)
            /\ 2 * Abs(h.n * r.n - ret.val.n * h.d * r.d) <= h.d * r.d
            /\ (h.n = 0 \/ r.n = 0) => ret.val = Zero

\* 1.5 hours at 65 is 97.5, returned as 98
C1_Witness ==
    /\ Returned("calculateLineAmount")
    /\ call.args = <<Num(3, 2), Int2Num(65)>>
    /\ ret.val = Int2Num(98)

\* the hours the search may use for the sampled targets
SearchHours == 1..(MaxTargetH \div 120 + 2)

\* |target - h*r| in units of 1/target.d
Distance(target, h, r) == Abs(target.n - h * r * target.d)

\* C2: for every non-zero target amount the result has hours a whole number
\* >= 1, rate 60 or 65 and amount = hours*rate, and no pair (h >= 1 whole,
\* r in {60, 65}) is strictly nearer to the target than the returned amount.
C2_MetricsNearest ==
    (Returned("calculateMetricsFromAmount") /\ ~IsZero(call.args[1])) =>
        LET t == call.args[1]
            m == ret.val
        IN  /\ IsInteger(m.hours) /\ m.hours.n >= 1
            /\ m.rate \in {Int2Num(60), Int2Num(65)}
            /\ m.amount = Int2Num(m.hours.n * m.rate.n)
            /\ \A h \in SearchHours : \A r \in {60, 65} :
                   ~(Distance(t, h, r) < Distance(t, m.hours.n, m.rate.n))

\* 130 is 2 hours at 65 exactly, nearer than 2 hours at 60
C2_Witness ==
    /\ Returned("calculateMetricsFromAmount")
    /\ call.args[1] = Int2Num(130)
    /\ ret.val = Metrics(Int2Num(2), Int2Num(65), Int2Num(130))

\* the distance of the nearest amount h*r, h >= 1 whole, from the target
BestDistance(target, r) ==
    CHOOSE d \in {Distance(target, h, r) : h \in SearchHours} :
        \A h \in SearchHours : d <= Distance(target, h, r)

\* C3: when the nearest rate-60 amount and the nearest rate-65 amount are at the
\* same distance from the target, the rate-60 candidate is returned.
C3_TieKeepsFirstRate ==
    (/\ Returned("calculateMetricsFromAmount")
     /\ ~IsZero(call.args[1])
     /\ BestDistance(call.args[1], 60) = BestDistance(call.args[1], 65)) =>
        LET t == call.args[1]
            m == ret.val
        IN  /\ m.rate = Int2Num(60)
            /\ IsInteger(m.hours) /\ m.hours.n >= 1
            /\ m.amount = Int2Num(60 * m.hours.n)
            /\ Distance(t, m.hours.n, 60) = BestDistance(t, 60)

\* 125 is 5 away from 2*60 and from 2*65
C3_Witness ==
    /\ Returned("calculateMetricsFromAmount")
    /\ call.args[1] = Int2Num(125)
    /\ BestDistance(call.args[1], 60) = BestDistance(call.args[1], 65)
    /\ ret.val = Metrics(Int2Num(2), Int2Num(60), Int2Num(120))

\* the rate handleAddItem gives a new service item
StandardRate == 65

\* C4 as stated: for target 0 the result is hours 0, amount 0 and the rate that
\* comes first in the enumeration order of the allowed rates.
C4_ZeroGivesFirstRate ==
    (Returned("calculateMetricsFromAmount") /\ IsZero(call.args[1])) =>
        ret.val = Metrics(Zero, rateOptions[1], Zero)

\* C4, amended: for target 0 the search is not run (the result has hours 0 and
\* amount 0, which no searched candidate has) and the rate is the standard
\* service rate 65, the last of the allowed rates in enumeration order.
C4_ZeroGivesStandardRate ==
    (Returned("calculateMetricsFromAmount") /\ IsZero(call.args[1])) =>
        /\ ret.val = Metrics(Zero, Int2Num(StandardRate), Zero)
        /\ ret.val.rate = rateOptions[Len(rateOptions)]
        /\ ret.val.rate # rateOptions[1]

C4_Witness ==
    /\ Returned("calculateMetricsFromAmount")
    /\ call.args[1] = Zero
    /\ ret.val.hours = Zero

RECURSIVE SumQuarters(_, _)
\* the sum of the amounts, in quarters, of the items of the given types
SumQuarters(its, types) ==
    IF its = <<>> THEN 0
    ELSE (IF its[1].type \in types THEN its[1].amount.n * (4 \div its[1].amount.d) ELSE 0)
         + SumQuarters(Tail(its), types)

\* v is a whole number nearest to pct percent of q quarters
NearestPercent(v, pct, q) == IsInteger(v) /\ Abs(400 * v.n - pct * q) <= 200

\* C5: for every item collection, gross is the sum of all amounts, gst and tax
\* are 15% and 20% of the sum of the service items' amounts rounded to a nearest
\* whole number, clientToPay = gross + gst and net = gross - tax; the empty
\* collection gives all zeros.
C5_Totals ==
    Returned("calculateTotals") =>
        LET its == call.args[1]
            t == ret.val
            g == SumQuarters(its, {"service", "expense"})
            s == SumQuarters(its, {"service"})
        IN  /\ t.gross = Num(g, 4)
            /\ NearestPercent(t.gst, 15, s)
            /\ NearestPercent(t.tax, 20, s)
            /\ t.clientToPay = Num(g + 4 * t.gst.n, 4)
            /\ t.net = Num(g - 4 * t.tax.n, 4)
            /\ its = <<>> =>
                 t = [gross |-> Zero, gst |-> Zero, tax |-> Zero,
                      clientToPay |-> Zero, net |-> Zero]

\* a service item of 100 and an expense item of 50
C5_Witness ==
    /\ Returned("calculateTotals")
    /\ call.args[1] = <<TotalsItem("service", Int2Num(100)),
                        TotalsItem("expense", Int2Num(50))>>
    /\ ret.val = [gross |-> Int2Num(150), gst |-> Int2Num(15), tax |-> Int2Num(20),
                  clientToPay |-> Int2Num(165), net |-> Int2Num(130)]

----------------------------------------------------------------------------
(* Strings: a string is the sequence of its characters *)

lowerLetters ==
    <<"a", "b", "c", "d", "e", "f", "g", "h", "i", "j", "k", "l", "m", "n", "o", "p", "q", "r", "s", "t", "u", "v", "w", "x", "y", "z">>

upperLetters ==
    <<"A", "B", "C", "D", "E", "F", "G", "H", "I", "J", "K", "L", "M", "N", "O", "P", "Q", "R", "S", "T", "U", "V", "W", "X", "Y", "Z">>

\* the lower-case letter of each upper-case letter
lowerOf ==
    [c \in {upperLetters[i] : i \in 1..Len(upperLetters)} |->
        lowerLetters[CHOOSE i \in 1..Len(upperLetters) : upperLetters[i] = c]]

LowerChar(c) == IF c \in DOMAIN lowerOf THEN lowerOf[c] ELSE c

\* chars.toLowerCase()
LowerChars(chars) == [i \in 1..Len(chars) |-> LowerChar(chars[i])]

\* chars.includes(sub), and a regular expression of plain text tested on chars
Includes(chars, sub) ==
    \E i \in 1..(Len(chars) - Len(sub) + 1) : SubSeq(chars, i, i + Len(sub) - 1) = sub

IsString(v) == v.k \in {"str", "sinf", "estr", "text"}

\* the outcome of a handler that threw a TypeError
TypeError == [k |-> "TypeError", n |-> 0, d |-> 1, s |-> <<>>]

\* v.toLowerCase(): a method of strings only
ToLowerCase(v) ==
    IF ~IsString(v) THEN TypeError
    ELSE IF v.k = "text" THEN Text(LowerChars(v.s)) ELSE v

IsDigit(c) == c \in {"0", "1", "2", "3", "4", "5", "6", "7", "8", "9"}

AllDigits(chars) == \A i \in 1..Len(chars) : IsDigit(chars[i])

----------------------------------------------------------------------------
(* utils/calculations: dates *)

\* /^\d{4}-\d{2}-\d{2}$/.test(chars)
IsISODate(chars) ==
    /\ Len(chars) = 10
    /\ AllDigits(SubSeq(chars, 1, 4)) /\ chars[5] = "-"
    /\ AllDigits(SubSeq(chars, 6, 7)) /\ chars[8] = "-"
    /\ AllDigits(SubSeq(chars, 9, 10))

IsDateSeparator(c) == c \in {"/", "-"}

\* the matches of /^(\d{1,2})[/-](\d{1,2})[/-](\d{4})$/: the lengths of the day
\* and month groups (no match: the empty set; the separators leave at most one)
DmyMatch(chars) ==
    {sh \in {1, 2} \X {1, 2} :
        /\ Len(chars) = sh[1] + sh[2] + 6
        /\ AllDigits(SubSeq(chars, 1, sh[1]))
        /\ IsDateSeparator(chars[sh[1] + 1])
        /\ AllDigits(SubSeq(chars, sh[1] + 2, sh[1] + 1 + sh[2]))
        /\ IsDateSeparator(chars[sh[1] + sh[2] + 2])
        /\ AllDigits(SubSeq(chars, sh[1] + sh[2] + 3, sh[1] + sh[2] + 6))}

\* a faulty variant of PadStart2: nothing is added
PadStartNone(chars) == chars

\* chars.padStart(2, '0')
PadStart2(chars) == IF Len(chars) < 2 THEN <<"0">> \o chars ELSE chars

longDate == <<"1", "5", " ", "M", "a", "r", "c", "h", " ", "2", "0", "2", "4">>

\* Date.parse(dateStr) followed by toISOString().split('T')[0].  Date.parse of
\* text that is no ISO date is implementation-defined and reads the text in
\* local time, so the UTC day is the written day or the day before it; Undef
\* stands for a NaN timestamp.
DateParseOutcomes(dateStr) ==
    IF dateStr.s = longDate
    THEN {Text(<<"2", "0", "2", "4", "-", "0", "3", "-", "1", "5">>),
          Text(<<"2", "0", "2", "4", "-", "0", "3", "-", "1", "4">>)}
    ELSE {Undef}

\* normalizeDateToISO(dateStr); parsed is the outcome of the Date.parse fallback
normalizeDateToISO(dateStr, parsed) ==
    IF ~Truthy(dateStr) THEN EmptyStr
    ELSE IF ~IsString(dateStr) THEN TypeError
    ELSE IF IsISODate(dateStr.s) THEN dateStr
    ELSE IF DmyMatch(dateStr.s) # {}
         THEN LET sh == CHOOSE x \in DmyMatch(dateStr.s) : TRUE
                  d == SubSeq(dateStr.s, 1, sh[1])
                  m == SubSeq(dateStr.s, sh[1] + 2, sh[1] + 1 + sh[2])
                  y == SubSeq(dateStr.s, sh[1] + sh[2] + 3, sh[1] + sh[2] + 6)
              IN  Text(y \o <<"-">> \o PadStart2(m) \o <<"-">> \o PadStart2(d))
    ELSE IF parsed # Undef THEN parsed
    ELSE dateStr

\* formatDateForDisplay(dateStr): YYYY-MM-DD becomes DD/MM/YYYY
formatDateForDisplay(dateStr) ==
    IF ~Truthy(dateStr) THEN EmptyStr
    ELSE IF IsISODate(dateStr.s)
         THEN LET y == SubSeq(dateStr.s, 1, 4)
                  m == SubSeq(dateStr.s, 6, 7)
                  d == SubSeq(dateStr.s, 9, 10)
              IN  Text(d \o <<"/">> \o m \o <<"/">> \o y)
    ELSE dateStr

----------------------------------------------------------------------------
(* App: the import normalizers *)

LineItem(id, type, date, description, hours, rate, amount) ==
    [id |-> id, type |-> type, date |-> date, description |-> description,
     hours |-> hours, rate |-> rate, amount |-> amount]

residentialBuild == Text(<<"R", "e", "s", "i", "d", "e", "n", "t", "i", "a", "l", " ", "B", "u", "i", "l", "d">>)

materials == Text(<<"M", "a", "t", "e", "r", "i", "a", "l", "s">>)

\* type === 'service' ? 'Residential Build' : 'Materials'
DefaultDescription(type) == IF type = "service" THEN residentialBuild ELSE materials

expenseWord == <<"e", "x", "p", "e", "n", "s", "e">>

serviceWord == <<"s", "e", "r", "v", "i", "c", "e">>

amountAliases ==
    <<<<"a", "m", "o", "u", "n", "t">>,
      <<"t", "o", "t", "a", "l">>,
      <<"l", "i", "n", "e", " ", "t", "o", "t", "a", "l">>,
      <<"g", "r", "o", "s", "s">>,
      <<"a", "m", "t">>>>

hoursAliases ==
    <<<<"h", "o", "u", "r", "s">>,
      <<"h", "r", "s">>,
      <<"q", "u", "a", "n", "t", "i", "t", "y">>,
      <<"q", "t", "y">>,
      <<"c", "o", "u", "n", "t">>,
      <<"q", "u", "a", "n", "t", "i", "t", "y", " ", "(", "h", "r", "s", ")">>>>

rateAliases ==
    <<<<"r", "a", "t", "e">>,
      <<"u", "n", "i", "t", " ", "p", "r", "i", "c", "e">>,
      <<"c", "o", "s", "t">>,
      <<"p", "r", "i", "c", "e">>,
      <<"u", "n", "i", "t", " ", "c", "o", "s", "t">>,
      <<"r", "a", "t", "e", " ", "(", "$", ")">>>>

descAliases ==
    <<<<"d", "e", "s", "c", "r", "i", "p", "t", "i", "o", "n">>,
      <<"i", "t", "e", "m">>,
      <<"a", "c", "t", "i", "v", "i", "t", "y">>,
      <<"d", "e", "t", "a", "i", "l", "s">>,
      <<"m", "e", "m", "o">>,
      <<"n", "o", "t", "e", "s">>,
      <<"t", "a", "s", "k">>>>

dateAliases ==
    <<<<"d", "a", "t", "e">>,
      <<"t", "r", "a", "n", "s", "a", "c", "t", "i", "o", "n", " ", "d", "a", "t", "e">>,
      <<"s", "e", "r", "v", "i", "c", "e", " ", "d", "a", "t", "e">>,
      <<"w", "o", "r", "k", " ", "d", "a", "t", "e">>,
      <<"i", "n", "v", "o", "i", "c", "e", " ", "d", "a", "t", "e">>>>

typeAliases ==
    <<<<"t", "y", "p", "e">>,
      <<"c", "a", "t", "e", "g", "o", "r", "y">>>>

\* the alternatives of the regular expression of isImplicitExpense
expenseKeywords ==
    <<<<"m", "a", "t", "e", "r", "i", "a", "l">>,
      <<"m", "i", "t", "r", "e", " ", "1", "0">>,
      <<"b", "u", "n", "n", "i", "n", "g", "s">>,
      <<"p", "l", "a", "c", "e", "m", "a", "k", "e", "r", "s">>,
      <<"c", "a", "r", "t", "e", "r", "s">>,
      <<"i", "t", "m">>,
      <<"f", "u", "e", "l">>,
      <<"p", "a", "r", "k", "i", "n", "g">>,
      <<"e", "x", "p", "e", "n", "s", "e">>,
      <<"r", "e", "i", "m", "b", "u", "r", "s", "e">>,
      <<"c", "o", "s", "t">>,
      <<"h", "a", "r", "d", "w", "a", "r", "e">>,
      <<"f", "a", "s", "t", "e", "n">>,
      <<"s", "c", "r", "e", "w">>,
      <<"n", "a", "i", "l">>,
      <<"t", "i", "m", "b", "e", "r">>,
      <<"c", "o", "n", "c", "r", "e", "t", "e">>,
      <<"p", "a", "i", "n", "t">>,
      <<"h", "i", "r", "e">>,
      <<"c", "o", "n", "s", "u", "m", "a", "b", "l", "e">>,
      <<"s", "t", "o", "r", "e">>,
      <<"m", "e", "r", "c", "h", "a", "n", "t">>>>

\* A parsed CSV row is the sequence of its [key, val] columns, in header order,
\* every val a string.

\* row[c]: the value of the column named exactly c, undefined when there is none
RowAt(row, c) ==
    IF \E i \in 1..Len(row) : row[i].key = c
    THEN row[CHOOSE i \in 1..Len(row) : row[i].key = c].val
    ELSE Undef

\* rowKeys.find(k => k.toLowerCase() === c.toLowerCase()): 0 when none is found
FindKey(row, c) ==
    LET lc == LowerChars(c)
        hits == {i \in 1..Len(row) : LowerChars(row[i].key) = lc}
    IN  IF hits = {} THEN 0 ELSE CHOOSE i \in hits : \A j \in hits : i <= j

\* the first candidate, from position i on, whose exactly named column is not empty
RECURSIVE ExactValue(_, _, _)
ExactValue(row, candidates, i) ==
    IF i > Len(candidates) THEN Undef
    ELSE LET v == RowAt(row, candidates[i])
         IN  IF v \notin {Undef, EmptyStr} THEN v
             ELSE ExactValue(row, candidates, i + 1)

\* the same with the column found case-insensitively
RECURSIVE FoldedValue(_, _, _)
FoldedValue(row, candidates, i) ==
    IF i > Len(candidates) THEN Undef
    ELSE LET foundKey == FindKey(row, candidates[i])
         IN  IF foundKey # 0 /\ row[foundKey].val \notin {Undef, EmptyStr}
             THEN row[foundKey].val
             ELSE FoldedValue(row, candidates, i + 1)

getRowValue(row, candidates) ==
    LET exact == ExactValue(row, candidates, 1)
    IN  IF exact # Undef THEN exact ELSE FoldedValue(row, candidates, 1)

\* the expense branch of the CSV row normalizer
ExpenseNumbersCSV(rowAmount, rowHours, rowRate) ==
    IF ~IsNaN(rowAmount)
    THEN IF ~IsNaN(rowRate)
         THEN IF ~IsNaN(rowHours)
              THEN Metrics(rowHours, rowRate, rowAmount)
              ELSE LET derived == Div(rowAmount, rowRate)
                   IN  Metrics(IF IsNaN(derived) \/ IsZero(derived) THEN One ELSE derived,
                               rowRate, rowAmount)
         ELSE LET finalHours == IF ~IsNaN(rowHours) THEN rowHours ELSE One
              IN  Metrics(finalHours, Div(rowAmount, finalHours), rowAmount)
    ELSE IF ~IsNaN(rowHours) /\ ~IsNaN(rowRate)
         THEN Metrics(rowHours, rowRate, Mul(rowHours, rowRate))
    ELSE Metrics(Zero, Int2Num(65), Zero)

\* a faulty variant of ServiceNumbersCSV: the hours and rate of the row are used
\* when both are given, whatever the amount
ServiceNumbersCSVGiven(rowAmount, rowHours, rowRate) ==
    IF ~IsNaN(rowHours) /\ ~IsNaN(rowRate)
    THEN Metrics(rowHours, rowRate, calculateLineAmount(rowHours, rowRate))
    ELSE IF ~IsNaN(rowAmount) /\ ~IsZero(rowAmount)
         THEN calculateMetricsFromAmount(rowAmount)
    ELSE Metrics(Zero, Int2Num(65), Zero)

\* the service branch of the CSV row normalizer
ServiceNumbersCSV(rowAmount, rowHours, rowRate) ==
    IF ~IsNaN(rowAmount) /\ ~IsZero(rowAmount)
    THEN calculateMetricsFromAmount(rowAmount)
    ELSE LET finalHours == IF ~IsNaN(rowHours) THEN rowHours ELSE Zero
             finalRate == IF ~IsNaN(rowRate) /\ Less(Zero, rowRate)
                          THEN rowRate ELSE Int2Num(65)
         IN  Metrics(finalHours, finalRate, calculateLineAmount(finalHours, finalRate))

\* a faulty variant of DescriptionOf: the missing description is not defaulted
DescriptionOfRaw(rawDesc) == rawDesc

\* const description = rawDesc || ''
DescriptionOf(rawDesc) == Or(rawDesc, EmptyStr)

\* the regular expression of isImplicitExpense tested on lowerDesc
IsImplicitExpense(lowerDesc) ==
    LET chars == LowerChars(lowerDesc.s)
    IN  \E i \in 1..Len(expenseKeywords) : Includes(chars, expenseKeywords[i])

\* explicitType && explicitType.toLowerCase().includes('expense')
IsExplicitExpense(explicitType) ==
    Truthy(explicitType) /\ Includes(ToLowerCase(explicitType).s, expenseWord)

\* the item the map callback of handleCSVImport returns for `row`; id is the
\* random id drawn, parsed the outcome of the Date.parse fallback
CSVRowToItem(row, id, parsed) ==
    LET rawAmount == getRowValue(row, amountAliases)
        rawHours == getRowValue(row, hoursAliases)
        rawRate == getRowValue(row, rateAliases)
        rawDesc == getRowValue(row, descAliases)
        rawDate == getRowValue(row, dateAliases)
        rowAmount == ParseFloat(rawAmount)
        rowHours == ParseFloat(rawHours)
        rowRate == ParseFloat(rawRate)
        description == DescriptionOf(rawDesc)
        rowDate == normalizeDateToISO(Or(rawDate, EmptyStr), parsed)
        lowerDesc == ToLowerCase(description)
        explicitType == getRowValue(row, typeAliases)
    IN  IF lowerDesc = TypeError THEN TypeError
        ELSE LET type == IF IsExplicitExpense(explicitType) \/ IsImplicitExpense(lowerDesc)
                         THEN "expense" ELSE "service"
                 final == IF type = "expense"
                          THEN ExpenseNumbersCSV(rowAmount, rowHours, rowRate)
                          ELSE ServiceNumbersCSV(rowAmount, rowHours, rowRate)
             IN  LineItem(id, type, rowDate, Or(description, DefaultDescription(type)),
                          final.hours, final.rate, final.amount)

\* the expense branch of handleAIGeneratedItems
ExpenseNumbersAI(amount, hours, rate) ==
    LET finalAmount == Or(amount, Zero)
    IN  Metrics(Or(hours, One), Or(rate, finalAmount), finalAmount)

\* the service branch of handleAIGeneratedItems
ServiceNumbersAI(amount, hours, rate) ==
    IF Truthy(amount) /\ ~IsZero(amount)
    THEN calculateMetricsFromAmount(amount)
    ELSE LET finalHours == Or(hours, Zero)
             finalRate == Or(rate, Int2Num(65))
         IN  Metrics(finalHours, finalRate, calculateLineAmount(finalHours, finalRate))

\* the item the map callback of handleAIGeneratedItems returns for `item`, a
\* Partial<LineItem> whose absent fields are Undef and whose type is a string
AIRecordToItem(item, id, parsed) ==
    LET type == IF item.type = Text(expenseWord) THEN "expense" ELSE "service"
        final == IF type = "expense"
                 THEN ExpenseNumbersAI(item.amount, item.hours, item.rate)
                 ELSE ServiceNumbersAI(item.amount, item.hours, item.rate)
        date == normalizeDateToISO(Or(item.date, EmptyStr), parsed)
    IN  IF date = TypeError THEN TypeError
        ELSE LineItem(id, type, date, Or(item.description, DefaultDescription(type)),
                      final.hours, final.rate, final.amount)

----------------------------------------------------------------------------
(* The import normalizers applied to sample raw records *)

\* the ids Math.random().toString(36).substr(2, 9) may give
RandomIds == {"r1", "r2"}

bunningsScrews == Text(<<"B", "u", "n", "n", "i", "n", "g", "s", " ", "s", "c", "r", "e", "w", "s">>)

siteConsultation == Text(<<"S", "i", "t", "e", " ", "c", "o", "n", "s", "u", "l", "t", "a", "t", "i", "o", "n">>)

notApplicable == Text(<<"n", "/", "a">>)

CsvAmountCells == {Undef, EmptyStr, notApplicable, Str(0, 1), Str(45, 1), Str(130, 1)}

CsvHoursCells == {Undef, notApplicable, Str(0, 1), Str(2, 1)}

CsvRateCells == {Undef, Str(0, 1), Str(50, 1), Str(-50, 1)}

CsvDescCells == {Undef, bunningsScrews, siteConsultation}

CsvTypeCells == {Undef, Text(<<"E", "x", "p", "e", "n", "s", "e">>), Text(serviceWord)}

CsvDateCells ==
    {Undef, Text(<<"1", "5", "/", "0", "3", "/", "2", "0", "2", "4">>),
     Text(<<"t", "b", "c">>), Text(longDate)}

\* the column names of a sample row, written in lower case or capitalised
ColumnNames(style) ==
    IF style = "lower"
    THEN [type |-> <<"t", "y", "p", "e">>, date |-> <<"d", "a", "t", "e">>,
          description |-> <<"d", "e", "s", "c", "r", "i", "p", "t", "i", "o", "n">>,
          hours |-> <<"h", "o", "u", "r", "s">>, rate |-> <<"r", "a", "t", "e">>,
          amount |-> <<"a", "m", "o", "u", "n", "t">>]
    ELSE [type |-> <<"T", "y", "p", "e">>, date |-> <<"D", "a", "t", "e">>,
          description |-> <<"D", "e", "s", "c", "r", "i", "p", "t", "i", "o", "n">>,
          hours |-> <<"H", "o", "u", "r", "s">>, rate |-> <<"R", "a", "t", "e">>,
          amount |-> <<"A", "m", "o", "u", "n", "t">>]

Column(key, val) == IF val = Undef THEN <<>> ELSE <<[key |-> key, val |-> val]>>

\* the row with the given cells; an Undef cell is a column the file does not have
CsvRow(style, type, date, description, hours, rate, amount) ==
    LET names == ColumnNames(style)
    IN  Column(names.type, type) \o Column(names.date, date)
        \o Column(names.description, description) \o Column(names.hours, hours)
        \o Column(names.rate, rate) \o Column(names.amount, amount)

\* the sample rows: every combination of the number cells in an undated row
\* with lower-case column names, and every date and both styles of column
\* names in rows whose number cells are absent or hold one number
CsvRowSamples ==
    {CsvRow("lower", ty, Undef, de, h, r, a) :
        ty \in CsvTypeCells, de \in CsvDescCells, h \in CsvHoursCells,
        r \in CsvRateCells, a \in CsvAmountCells}
    \cup {CsvRow(style, ty, da, de, h, r, a) :
            style \in {"lower", "capital"}, ty \in CsvTypeCells,
            da \in CsvDateCells, de \in CsvDescCells, h \in {Undef, Str(2, 1)},
            r \in {Undef, Str(50, 1)}, a \in {Undef, Str(130, 1)}}

AiNumberSamples(S) == {Undef} \cup {Int2Num(i) : i \in S}

\* the records the notes and PDF producers give: typed as their response schemas
\* say, any field absent
AiTypeSamples ==
    {Undef, Text(expenseWord), Text(serviceWord), Text(<<"l", "a", "b", "o", "u", "r">>)}

\* every combination of the numbers in an undated record, and every date in
\* records whose numbers are absent or one number
AiRecordSamples ==
    [type : AiTypeSamples,
     date : {Undef},
     description : {Undef, EmptyStr, siteConsultation, bunningsScrews},
     hours : AiNumberSamples({0, 2}),
     rate : AiNumberSamples({0, 85, -85}),
     amount : AiNumberSamples({0, 45, 130})]
    \cup [type : AiTypeSamples,
          date : {Undef, Text(<<"2", "0", "2", "4", "-", "0", "3", "-", "1", "5">>),
                  Text(<<"1", "5", "/", "0", "3", "/", "2", "0", "2", "4">>)},
          description : {Undef, siteConsultation},
          hours : AiNumberSamples({2}),
          rate : AiNumberSamples({85}),
          amount : AiNumberSamples({130})]

ImportCalls ==
    {[fn |-> "csvRow", args |-> <<row>>] : row \in CsvRowSamples}
    \cup {[fn |-> "aiRecord", args |-> <<rec>>] : rec \in AiRecordSamples}

ImportInit ==
    /\ call \in ImportCalls
    /\ ret = NoRet
    /\ items = <<>>
    /\ rendered = <<>>
    /\ pending = {}
    /\ busy = {}
    /\ outcome = NoOutcome

\* String(v) of a number, as a CSV cell holds it
NumberCell(v) ==
    CASE v.k = "num" -> [v EXCEPT !.k = "str"]
      [] v.k = "inf" -> [v EXCEPT !.k = "sinf"]
      [] OTHER -> Text(<<"N", "a", "N">>)

\* the raw CSV row made of an item: one column for each field but the id
RowOfItem(item) ==
    CsvRow("lower", Text(IF item.type = "expense" THEN expenseWord ELSE serviceWord),
           item.date, item.description, NumberCell(item.hours),
           NumberCell(item.rate), NumberCell(item.amount))

\* the raw record made of an item for handleAIGeneratedItems
RecordOfItem(item) ==
    [type |-> Text(IF item.type = "expense" THEN expenseWord ELSE serviceWord),
     date |-> item.date, description |-> item.description,
     hours |-> item.hours, rate |-> item.rate, amount |-> item.amount]

\* the date text the row's normalization hands to normalizeDateToISO
RowDateText(row) == Or(getRowValue(row, dateAliases), EmptyStr)

NormalizeCsvRow ==
    /\ call.fn = "csvRow"
    /\ ~ret.done
    /\ \E id \in RandomIds : \E parsed \in DateParseOutcomes(RowDateText(call.args[1])) :
           ret' = [done |-> TRUE, val |-> CSVRowToItem(call.args[1], id, parsed)]
    /\ UNCHANGED <<form, call>>

NormalizeAiRecord ==
    /\ call.fn = "aiRecord"
    /\ ~ret.done
    /\ \E id \in RandomIds :
         \E parsed \in DateParseOutcomes(Or(call.args[1].date, EmptyStr)) :
           ret' = [done |-> TRUE, val |-> AIRecordToItem(call.args[1], id, parsed)]
    /\ UNCHANGED <<form, call>>

\* the CSV normalizer run again on the row made of its own output
RenormalizeCsvRow ==
    /\ call.fn = "csvRow"
    /\ ret.done
    /\ ret.val # TypeError
    /\ LET row == RowOfItem(ret.val)
       IN  /\ call' = [fn |-> "csvRowAgain", args |-> <<row>>, first |-> ret.val]
           /\ \E id \in RandomIds : \E parsed \in DateParseOutcomes(RowDateText(row)) :
                  ret' = [done |-> TRUE, val |-> CSVRowToItem(row, id, parsed)]
    /\ UNCHANGED form

\* handleAIGeneratedItems run again on the record made of its own output
RenormalizeAiRecord ==
    /\ call.fn = "aiRecord"
    /\ ret.done
    /\ ret.val # TypeError
    /\ LET rec == RecordOfItem(ret.val)
       IN  /\ call' = [fn |-> "aiRecordAgain", args |-> <<rec>>, first |-> ret.val]
           /\ \E id \in RandomIds : \E parsed \in DateParseOutcomes(Or(rec.date, EmptyStr)) :
                  ret' = [done |-> TRUE, val |-> AIRecordToItem(rec, id, parsed)]
    /\ UNCHANGED form

ImportNext ==
    \/ NormalizeCsvRow
    \/ NormalizeAiRecord
    \/ RenormalizeCsvRow
    \/ RenormalizeAiRecord

SpecImport == ImportInit /\ [][ImportNext]_vars

----------------------------------------------------------------------------
(* Properties of the import normalizers *)

SameFields(a, b) ==
    /\ a.type = b.type /\ a.date = b.date /\ a.description = b.description
    /\ a.hours = b.hours /\ a.rate = b.rate /\ a.amount = b.amount

\* C7 as stated: the normalizer run on the record made of its own output item
\* gives the same type, date, description, hours, rate and amount.
C7_NormalizerIdempotent ==
    (call.fn \in {"csvRowAgain", "aiRecordAgain"} /\ ret.done) =>
        /\ ret.val # TypeError
        /\ SameFields(ret.val, call.first)

IsNumber(v) == v.k \in {"num", "nan", "inf"}

\* a LineItem: every field holds a value of its declared type
IsLineItem(it) ==
    /\ it # TypeError
    /\ it.id \in RandomIds
    /\ it.type \in {"service", "expense"}
    /\ IsString(it.date)
    /\ it.description.k = "text"
    /\ IsNumber(it.hours) /\ IsNumber(it.rate) /\ IsNumber(it.amount)

\* no numeric field of the raw record resolves to a number
NoNumberResolvable ==
    IF call.fn \in {"csvRow", "csvRowAgain"}
    THEN /\ IsNaN(ParseFloat(getRowValue(call.args[1], amountAliases)))
         /\ IsNaN(ParseFloat(getRowValue(call.args[1], hoursAliases)))
         /\ IsNaN(ParseFloat(getRowValue(call.args[1], rateAliases)))
    ELSE /\ call.args[1].amount = Undef
         /\ call.args[1].hours = Undef
         /\ call.args[1].rate = Undef

----------------------------------------------------------------------------
(* App: the line-item handlers *)

\* useState<LineItem[]>([...]): the item the form opens with
InitialItems ==
    <<LineItem("1", "service", EmptyStr, residentialBuild, Zero, Int2Num(65), Zero)>>

\* a faulty variant of HoursOrOne: the hours are taken as they are
HoursAsIs(hours) == hours

\* item.hours || 1
HoursOrOne(hours) == Or(hours, One)

\* a faulty variant of ForwardAmount: the item's stored hours and rate are used,
\* not the value just typed
ForwardAmountStale(item, field, val) ==
    calculateLineAmount(Or(item.hours, Zero), Or(item.rate, Zero))

\* the amount an edit of hours or rate to val gives (standard forward calculation)
ForwardAmount(item, field, val) ==
    LET h == IF field = "hours" THEN val ELSE item.hours
        r == IF field = "rate" THEN val ELSE item.rate
    IN  calculateLineAmount(Or(h, Zero), Or(r, Zero))

\* const val = value === '' ? 0 : Number(value)
InputNumber(value) == IF value = EmptyStr THEN Zero ELSE ToNumber(value)

\* the callback handleItemChange maps over the items, for the item of the id
ChangedItem(item, field, value) ==
    CASE field = "type" ->
           IF value = "expense"
           THEN [item EXCEPT !.type = value, !.hours = One, !.rate = item.amount]
           ELSE LET h == HoursOrOne(item.hours)
                IN  [item EXCEPT !.type = value, !.hours = h,
                                 !.rate = Div(item.amount, h)]
      [] field = "amount" ->
           LET val == InputNumber(value)
               h == HoursOrOne(item.hours)
           IN  [item EXCEPT !.amount = val, !.hours = h, !.rate = Div(val, h)]
      [] field \in {"hours", "rate"} ->
           [item EXCEPT ![field] = value,
                        !.amount = ForwardAmount(item, field, InputNumber(value))]
      [] OTHER -> [item EXCEPT ![field] = value]

\* a faulty variant of handleItemChange: an id no item has makes a new item
handleItemChangeOrCreate(prev, id, field, value) ==
    IF \A i \in 1..Len(prev) : prev[i].id # id
    THEN Append(prev, [LineItem(id, "service", EmptyStr, EmptyStr, Zero,
                                Int2Num(65), Zero) EXCEPT ![field] = value])
    ELSE [i \in 1..Len(prev) |->
            IF prev[i].id # id THEN prev[i] ELSE ChangedItem(prev[i], field, value)]

\* setItems(prev => prev.map(...)) of handleItemChange
handleItemChange(prev, id, field, value) ==
    [i \in 1..Len(prev) |->
        IF prev[i].id # id THEN prev[i] ELSE ChangedItem(prev[i], field, value)]

\* the item with the metrics of its amount in hours, rate and amount
Resolved(item) ==
    LET metrics == calculateMetricsFromAmount(item.amount)
    IN  [item EXCEPT !.hours = metrics.hours, !.rate = metrics.rate,
                     !.amount = metrics.amount]

\* a faulty variant of handleAmountBlur: the items of every type are resolved
handleAmountBlurAnyType(prev, id) ==
    [i \in 1..Len(prev) |-> IF prev[i].id # id THEN prev[i] ELSE Resolved(prev[i])]

\* setItems(prev => prev.map(...)) of handleAmountBlur
handleAmountBlur(prev, id) ==
    [i \in 1..Len(prev) |->
        IF prev[i].id # id \/ prev[i].type # "service" THEN prev[i]
        ELSE LET metrics == calculateMetricsFromAmount(prev[i].amount)
             IN  [prev[i] EXCEPT !.hours = metrics.hours, !.rate = metrics.rate,
                                 !.amount = metrics.amount]]

\* the item handleAddItem appends
NewItem(id, type) ==
    LineItem(id, type, EmptyStr, DefaultDescription(type),
             IF type = "service" THEN Zero ELSE One,
             IF type = "service" THEN Int2Num(65) ELSE Zero, Zero)

\* prev.filter(i => i.id !== id)
handleDeleteItem(prev, id) ==
    LET Keep(it) == it.id # id
    IN  SelectSeq(prev, Keep)

----------------------------------------------------------------------------
(* The form: the user's operations on the item collection *)

\* the collection holds at most MaxItems items
MaxItems == 2

\* the numbers of the collection stay within MaxMagnitude, in numerator and
\* denominator
MaxMagnitude == 400

\* what a number input hands to onChange: '' or the text of a number
NumberInputs == {EmptyStr, Str(0, 1), Str(3, 2), Str(50, 1), Str(-5, 1)}

\* the number typed where the collection holds several rows
FormNumberInputs == {Str(50, 1)}

\* what the description input hands to onChange: a text and a lone blank
DescriptionInputs == {Text(<<"D", "e", "c", "k">>), Text(<<" ">>)}

\* what the date input hands to onChange
DateInputs == {Text(<<"2", "0", "2", "4", "-", "0", "3", "-", "1", "5">>)}

Magnitude(v) == IF v.k \in {"num", "str"} THEN IF Abs(v.n) > v.d THEN Abs(v.n) ELSE v.d ELSE 0

Bounded(its) ==
    /\ Len(its) <= MaxItems
    /\ \A i \in 1..Len(its) :
          /\ Magnitude(its[i].hours) <= MaxMagnitude
          /\ Magnitude(its[i].rate) <= MaxMagnitude
          /\ Magnitude(its[i].amount) <= MaxMagnitude

Init ==
    /\ items = InitialItems
    /\ rendered = InitialItems
    /\ pending = {}
    /\ busy = {}
    /\ outcome = NoOutcome
    /\ call = NoCall
    /\ ret = NoRet

\* a handler of a user event has set the items: React renders the new state
\* before it handles the next event
Flushed ==
    /\ rendered' = items'
    /\ outcome' = NoOutcome
    /\ UNCHANGED <<pending, busy, call, ret>>

\* the type button of a row: onChange(item.id, 'type', the other type)
ToggleType ==
    \E i \in 1..Len(items) :
        LET value == IF items[i].type = "service" THEN "expense" ELSE "service"
        IN  /\ items' = handleItemChange(items, items[i].id, "type", value)
            /\ Bounded(items')
            /\ Flushed

\* a keystroke in the hours, rate or amount input of a row
EditNumberOf(inputs) ==
    \E i \in 1..Len(items) : \E field \in {"hours", "rate", "amount"} :
      \E value \in inputs :
        /\ items' = handleItemChange(items, items[i].id, field, value)
        /\ Bounded(items')
        /\ Flushed

EditNumber == EditNumberOf(NumberInputs)

FormEditNumber == EditNumberOf(FormNumberInputs)

\* a keystroke in the description of a row
EditText ==
    \E i \in 1..Len(rendered) : \E value \in DescriptionInputs :
        /\ items' = handleItemChange(items, rendered[i].id, "description", value)
        /\ Flushed

\* a pick in the date input of a row
EditDate ==
    \E i \in 1..Len(items) : \E value \in DateInputs :
        /\ items' = handleItemChange(items, items[i].id, "date", value)
        /\ Flushed

\* the amount input of a row loses the focus
AmountBlur ==
    \E i \in 1..Len(items) :
        /\ items' = handleAmountBlur(items, items[i].id)
        /\ Flushed

\* handleAddItem: setItems([...items, newItem]), items being the items of the
\* render the handler belongs to
AddItem ==
    \E type \in {"service", "expense"} : \E id \in RandomIds :
        /\ items' = Append(rendered, NewItem(id, type))
        /\ Bounded(items')
        /\ Flushed

\* the delete button of a rendered row
DeleteItem ==
    \E i \in 1..Len(rendered) :
        /\ items' = handleDeleteItem(items, rendered[i].id)
        /\ Flushed

Next ==
    \/ ToggleType
    \/ FormEditNumber
    \/ AmountBlur
    \/ AddItem
    \/ DeleteItem

Spec == Init /\ [][Next]_vars

----------------------------------------------------------------------------
(* One row of the form: the edits of a single item *)

\* the records of the AI results: a service of given hours and rate, and an
\* expense of a given amount
FormAiRecords ==
    {[type |-> Text(serviceWord), date |-> Undef, description |-> siteConsultation,
      hours |-> Int2Num(2), rate |-> Int2Num(85), amount |-> Undef],
     [type |-> Text(expenseWord), date |-> Undef, description |-> Undef,
      hours |-> Undef, rate |-> Undef, amount |-> Int2Num(45)]}

\* the rows an edit can start from: the row the form opens with, a row the
\* add button made, rows the imports made
RowStarts ==
    {InitialItems, <<NewItem("r1", "expense")>>}
    \cup {<<CSVRowToItem(CsvRow("lower", Undef, Undef, siteConsultation,
                                 Undef, Undef, Str(130, 1)), "r1", Undef)>>}
    \cup {<<AIRecordToItem(rec, "r1", Undef)>> : rec \in FormAiRecords}

RowInit ==
    /\ items \in RowStarts
    /\ rendered = items
    /\ pending = {}
    /\ busy = {}
    /\ outcome = NoOutcome
    /\ call = NoCall
    /\ ret = NoRet

RowNext ==
    \/ ToggleType
    \/ EditNumber
    \/ EditDate
    \/ AmountBlur

SpecRow == RowInit /\ [][RowNext]_vars

----------------------------------------------------------------------------
(* The claims about the handlers *)

OtherType(type) == IF type = "service" THEN "expense" ELSE "service"

\* hours that are zero or absent: no value, the empty text, or a value whose
\* number is 0
ZeroOrAbsent(hours) == hours \in {Undef, EmptyStr} \/ IsZero(ToNumber(hours))

\* C6: toggling the category of an item never changes its amount; to expense,
\* hours become 1 and the rate the current amount; to service, hours are kept,
\* or become 1 when they are zero or absent, and the rate becomes
\* amount / hours
C6_ToggleKeepsAmount ==
    [][\A i \in 1..Len(items) :
          LET item == items[i]
              value == OtherType(item.type)
              h == IF ZeroOrAbsent(item.hours) THEN One ELSE item.hours
          IN  items' = handleItemChange(items, item.id, "type", value)
              => /\ items'[i].type = value
                 /\ items'[i].amount = item.amount
                 /\ value = "expense"
                      => items'[i].hours = One /\ items'[i].rate = item.amount
                 /\ value = "service"
                      => items'[i].hours = h /\ items'[i].rate = Div(item.amount, h)
      ]_vars

NonFinite(v) == v.k \in {"nan", "inf"}

\* C8: no item of the collection holds NaN or an infinity in its amount or its
\* rate
C8_NoNonFiniteStored ==
    \A i \in 1..Len(items) : ~NonFinite(items[i].amount) /\ ~NonFinite(items[i].rate)

\* an empty or missing input counts as 0: no value, the empty text, not a number
ZeroIfMissing(v) ==
    IF v \in {Undef, EmptyStr} \/ IsNaN(ToNumber(v)) THEN Zero ELSE ToNumber(v)

\* C10: an edit of the hours or of the rate of an item stores the value typed
\* and sets the amount of the item to round(newHours * newRate), of the value
\* typed and the current value of the other field, an empty or missing one
\* taken as 0
C10_EditRecomputesAmount ==
    [][\A i \in 1..Len(items) : \A field \in {"hours", "rate"} :
        \A value \in NumberInputs :
          LET item == items[i]
              newHours == IF field = "hours" THEN value ELSE item.hours
              newRate == IF field = "rate" THEN value ELSE item.rate
          IN  items' = handleItemChange(items, item.id, field, value)
              => /\ items'[i][field] = value
                 /\ items'[i].amount =
                        MathRound(Mul(ZeroIfMissing(newHours), ZeroIfMissing(newRate)))
      ]_vars

\* 1.5 hours typed on the opening row: 1.5 * 65 = 97.5, the amount is 98
C10_Witness ==
    \E i \in 1..Len(items) :
        /\ items[i].hours = Str(3, 2)
        /\ items[i].rate = Int2Num(65)
        /\ items[i].amount = Int2Num(98)

\* the fields an edit of a number never touches
SameIdentity(a, b) ==
    /\ a.id = b.id /\ a.type = b.type /\ a.date = b.date
    /\ a.description = b.description

\* C11 as stated: an edit of the amount stores the typed value as it is (no
\* resolver), sets rate = amount / hours of the current hours, and leaves
\* hours, category, date, description and id unchanged
C11_AmountEditKeepsHours ==
    [][\A i \in 1..Len(items) : \A value \in NumberInputs :
          LET item == items[i]
          IN  items' = handleItemChange(items, item.id, "amount", value)
              => /\ items'[i].amount = InputNumber(value)
                 /\ items'[i].hours = item.hours
                 /\ items'[i].rate = Div(items'[i].amount, item.hours)
                 /\ SameIdentity(items'[i], item)
      ]_vars

\* hours an amount edit cannot divide by: the number 0, NaN, the empty text,
\* no value
NoHours(hours) == hours \in {Zero, NaN, EmptyStr, Undef}

\* C11, amended: an edit of the amount stores the typed value as it is (no
\* resolver), leaves category, date, description and id unchanged, keeps the
\* hours unless they are the number 0, empty or absent, when they become 1,
\* and sets rate = amount / hours of those hours
C11_AmountEditBackDerivesRate ==
    [][\A i \in 1..Len(items) : \A value \in NumberInputs :
          LET item == items[i]
              h == IF NoHours(item.hours) THEN One ELSE item.hours
          IN  items' = handleItemChange(items, item.id, "amount", value)
              => /\ items'[i].amount = InputNumber(value)
                 /\ items'[i].hours = h
                 /\ items'[i].rate = Div(InputNumber(value), h)
                 /\ SameIdentity(items'[i], item)
      ]_vars

\* 50 typed in the amount of the opening row: the service row holds 1 hour at
\* rate 50 and amount 50, which is on no 60/65 grid
C11_Witness ==
    \E i \in 1..Len(items) :
        /\ items[i].id = "1" /\ items[i].type = "service"
        /\ items[i].hours = One
        /\ items[i].rate = Int2Num(50)
        /\ items[i].amount = Int2Num(50)

\* C12: the resolver runs on the blur of the amount input and not on a
\* keystroke, and only for a service item: a blur on an expense item changes
\* nothing, a blur on a service item puts calculateMetricsFromAmount(amount) in
\* its hours, rate and amount and changes no other field and no other item; a
\* keystroke in the amount stores the typed number as it is.  The item is the
\* item of the id.
C12_ResolverOnlyOnCommit ==
    [][/\ \A i \in 1..Len(items) :
            items' = handleAmountBlur(items, items[i].id)
            => /\ Len(items') = Len(items)
               /\ \A j \in 1..Len(items) :
                     items'[j] =
                        IF items[j].id = items[i].id /\ items[j].type = "service"
                        THEN Resolved(items[j]) ELSE items[j]
       /\ \A i \in 1..Len(items) : \A value \in FormNumberInputs :
            items' = handleItemChange(items, items[i].id, "amount", value)
            => items'[i].amount = InputNumber(value)
      ]_vars

\* two rows, one a service row committed after 50 was typed in its amount:
\* 1 hour at 60, amount 60
C12_Witness ==
    /\ Len(items) = 2
    /\ \E i \in 1..2 :
          /\ items[i].type = "service"
          /\ items[i].hours = One /\ items[i].rate = Int2Num(60)
          /\ items[i].amount = Int2Num(60)
          /\ items[3 - i].id # items[i].id

----------------------------------------------------------------------------
(* The claims about the classification and the numbers of imported records *)

IsCsvCall == call.fn \in {"csvRow", "csvRowAgain"}

IsImportCall == call.fn \in {"csvRow", "csvRowAgain", "aiRecord", "aiRecordAgain"}

\* the explicit category text of the raw record of the call
RawCategory ==
    IF IsCsvCall THEN getRowValue(call.args[1], typeAliases) ELSE call.args[1].type

\* the description of the raw record of the call
RawDescription ==
    IF IsCsvCall THEN getRowValue(call.args[1], descAliases)
    ELSE call.args[1].description

\* the text v contains the word, in any case of its letters
ContainsWord(v, word) == v.k = "text" /\ Includes(LowerChars(v.s), word)

\* C13 as stated: a raw record of any producer is an expense if its category
\* text contains "expense" or its description contains a keyword of the
\* expense vocabulary, in any case of the letters, and a service otherwise
C13_CategoryInference ==
    (IsImportCall /\ ret.done /\ ret.val # TypeError) =>
        ret.val.type =
            IF \/ ContainsWord(RawCategory, expenseWord)
               \/ \E k \in 1..Len(expenseKeywords) :
                     ContainsWord(RawDescription, expenseKeywords[k])
            THEN "expense" ELSE "service"

\* the amount, the hours (quantity) and the rate of the raw record of the call,
\* as numbers: NaN for a CSV cell that is absent or holds no number, Undef for
\* an absent field of an AI or PDF record
RawAmount ==
    IF IsCsvCall THEN ParseFloat(getRowValue(call.args[1], amountAliases))
    ELSE call.args[1].amount

RawHours ==
    IF IsCsvCall THEN ParseFloat(getRowValue(call.args[1], hoursAliases))
    ELSE call.args[1].hours

RawRate ==
    IF IsCsvCall THEN ParseFloat(getRowValue(call.args[1], rateAliases))
    ELSE call.args[1].rate

Present(number) == number # Undef /\ ~IsNaN(number)

Emitted(type) == IsImportCall /\ ret.done /\ ret.val # TypeError /\ ret.val.type = type

\* C14: a raw record emitted as service whose amount is present and not 0 gets
\* the hours, rate and amount of calculateMetricsFromAmount(amount); the hours
\* and rate of the record are not used
C14_ServiceAmountResolved ==
    (Emitted("service") /\ Present(RawAmount) /\ ~IsZero(RawAmount)) =>
        LET metrics == calculateMetricsFromAmount(RawAmount)
        IN  /\ ret.val.hours = metrics.hours
            /\ ret.val.rate = metrics.rate
            /\ ret.val.amount = metrics.amount

\* the row {description: "Site consultation", hours: "2", rate: "50",
\* amount: "130"} comes out as 2 hours at 65, amount 130
C14_Witness ==
    /\ Emitted("service") /\ call.fn = "csvRow"
    /\ RawDescription = siteConsultation
    /\ RawAmount = Int2Num(130) /\ RawHours = Int2Num(2) /\ RawRate = Int2Num(50)
    /\ ret.val.hours = Int2Num(2) /\ ret.val.rate = Int2Num(65)
    /\ ret.val.amount = Int2Num(130)

\* C15 as stated: a raw record of any producer emitted as expense that has no
\* amount and has both a quantity and a rate gets hours = quantity, rate = rate
\* and amount = quantity * rate
C15_ExpenseAmountFromQuantity ==
    (Emitted("expense") /\ ~Present(RawAmount) /\ Present(RawHours) /\ Present(RawRate)) =>
        /\ ret.val.hours = RawHours
        /\ ret.val.rate = RawRate
        /\ ret.val.amount = Mul(RawHours, RawRate)

\* C23: a raw record of any producer emitted as service whose amount is absent
\* or 0 gets hours = the given hours, 0 when absent, rate = the given rate when
\* it is positive and 65 otherwise, and amount = round(hours * rate)
C23_ServiceFromHoursAndRate ==
    (Emitted("service") /\ (~Present(RawAmount) \/ IsZero(RawAmount))) =>
        LET hours == IF Present(RawHours) THEN RawHours ELSE Zero
            rate == IF Present(RawRate) /\ Less(Zero, RawRate) THEN RawRate
                    ELSE Int2Num(StandardRate)
        IN  /\ ret.val.hours = hours
            /\ ret.val.rate = rate
            /\ ret.val.amount = calculateLineAmount(hours, rate)

\* C24: a raw record of any producer emitted as expense whose amount is
\* present keeps that amount; with a rate present the rate is kept and the
\* hours are the given quantity, or amount / rate, or 1 when that quotient is
\* NaN or 0; with no rate the hours are the given quantity or 1, and the rate
\* is amount / hours
C24_ExpenseFromAmount ==
    (Emitted("expense") /\ Present(RawAmount)) =>
        LET derived == Div(RawAmount, RawRate)
            hours == IF Present(RawHours) THEN RawHours
                     ELSE IF ~Present(RawRate) \/ IsNaN(derived) \/ IsZero(derived)
                          THEN One ELSE derived
        IN  /\ ret.val.amount = RawAmount
            /\ ret.val.hours = hours
            /\ ret.val.rate = IF Present(RawRate) THEN RawRate
                              ELSE Div(RawAmount, hours)

----------------------------------------------------------------------------
(* The date functions applied to sample texts *)

DaySamples == {<<"1">>, <<"0", "5">>, <<"1", "5">>, <<"3", "1">>}

MonthSamples == {<<"3">>, <<"0", "3">>, <<"1", "2">>}

YearSamples == {<<"2", "0", "2", "4">>, <<"1", "9", "9", "9">>}

\* day, month and year in both orders with every pair of separators, the empty
\* text, and two texts that are neither: one Date.parse reads and one it does
\* not
DateSamples ==
    {Text(a \o <<s1>> \o b \o <<s2>> \o c) :
        a \in DaySamples \cup YearSamples, b \in MonthSamples,
        c \in DaySamples \cup YearSamples, s1 \in {"/", "-"}, s2 \in {"/", "-"}}
    \cup {EmptyStr, Text(<<"t", "b", "c">>), Text(longDate)}

\* the samples Date.parse is not asked about, or whose result is known
KnownDateSamples ==
    {t \in DateSamples :
        \/ t = EmptyStr \/ IsISODate(t.s) \/ DmyMatch(t.s) # {}
        \/ t \in {Text(<<"t", "b", "c">>), Text(longDate)}}

DateInit ==
    /\ call \in {[fn |-> "normalizeDateToISO", args |-> <<t>>, first |-> t] :
                    t \in KnownDateSamples}
    /\ ret = NoRet
    /\ items = <<>>
    /\ rendered = <<>>
    /\ pending = {}
    /\ busy = {}
    /\ outcome = NoOutcome

ApplyNormalizeDate ==
    /\ call.fn = "normalizeDateToISO" /\ ~ret.done
    /\ \E parsed \in DateParseOutcomes(call.args[1]) :
          ret' = [done |-> TRUE, val |-> normalizeDateToISO(call.args[1], parsed)]
    /\ UNCHANGED <<form, call>>

\* the stored date is formatted for display
ApplyFormatDate ==
    /\ call.fn = "normalizeDateToISO" /\ ret.done
    /\ call' = [fn |-> "formatDateForDisplay", args |-> <<ret.val>>, first |-> call.first]
    /\ ret' = [done |-> TRUE, val |-> formatDateForDisplay(ret.val)]
    /\ UNCHANGED form

DateNext ==
    \/ ApplyNormalizeDate
    \/ ApplyFormatDate

SpecDate == DateInit /\ [][DateNext]_vars

\* the runs of chars between the separators / and -
RECURSIVE DateFields(_)
DateFields(chars) ==
    IF \A i \in 1..Len(chars) : ~IsDateSeparator(chars[i]) THEN <<chars>>
    ELSE LET i == CHOOSE j \in 1..Len(chars) :
                    /\ IsDateSeparator(chars[j])
                    /\ \A k \in 1..(j - 1) : ~IsDateSeparator(chars[k])
         IN  <<SubSeq(chars, 1, i - 1)>> \o DateFields(SubSeq(chars, i + 1, Len(chars)))

Digits(chars, lengths) == Len(chars) \in lengths /\ AllDigits(chars)

\* YYYY-MM-DD
IsCanonicalDate(t) ==
    /\ t.k = "text"
    /\ LET f == DateFields(t.s)
       IN  /\ Len(f) = 3
           /\ Digits(f[1], {4}) /\ Digits(f[2], {2}) /\ Digits(f[3], {2})
           /\ t.s[5] = "-" /\ t.s[8] = "-"

\* D/M/YYYY or D-M-YYYY, the day and the month of one or two digits
IsDayMonthYear(t) ==
    /\ t.k = "text"
    /\ LET f == DateFields(t.s)
       IN  Len(f) = 3 /\ Digits(f[1], {1, 2}) /\ Digits(f[2], {1, 2}) /\ Digits(f[3], {4})

ZeroPadded(chars) == IF Len(chars) = 1 THEN <<"0">> \o chars ELSE chars

\* C20: normalizeDateToISO returns '' for the empty text, a YYYY-MM-DD text as
\* it is, a D/M/YYYY or D-M-YYYY text as YYYY-MM-DD with the day and the month
\* padded to two digits, and a text Date.parse does not read as it is; and
\* formatDateForDisplay of the normalized DD/MM/YYYY text is that text
C20_DateNormalization ==
    /\ Returned("normalizeDateToISO") =>
          LET t == call.args[1]
          IN  /\ t = EmptyStr => ret.val = EmptyStr
              /\ IsCanonicalDate(t) => ret.val = t
              /\ IsDayMonthYear(t) =>
                    LET f == DateFields(t.s)
                    IN  ret.val = Text(f[3] \o <<"-">> \o ZeroPadded(f[2])
                                            \o <<"-">> \o ZeroPadded(f[1]))
              /\ (t # EmptyStr /\ ~IsCanonicalDate(t) /\ ~IsDayMonthYear(t)
                    /\ DateParseOutcomes(t) = {Undef}) => ret.val = t
    /\ (Returned("formatDateForDisplay") /\ IsDayMonthYear(call.first)
          /\ Len(call.first.s) = 10 /\ call.first.s[3] = "/" /\ call.first.s[6] = "/")
          => ret.val = call.first

\* 15/03/2024 is stored as 2024-03-15 and displayed as 15/03/2024
C20_Witness ==
    /\ Returned("formatDateForDisplay")
    /\ call.first = Text(<<"1", "5", "/", "0", "3", "/", "2", "0", "2", "4">>)
    /\ call.args[1] = Text(<<"2", "0", "2", "4", "-", "0", "3", "-", "1", "5">>)
    /\ ret.val = call.first

----------------------------------------------------------------------------
(* The external calls: imports and polish beside the user's operations *)

\* at most MaxPending external calls are in flight
MaxPending == 1

\* retries = 3, the default of retryOperation
retries == 3

\* an external call in flight: id and text are the arguments of a polish call,
\* left the retries retryOperation has left
Call(kind, id, text, left) ==
    [kind |-> kind, id |-> id, text |-> text, retries |-> left]

\* what an external service hands back: ok is FALSE when the request failed,
\* val is the parsed response
Response(ok, val) == [ok |-> ok, val |-> val]

RECURSIVE TrimStart(_)
TrimStart(chars) ==
    IF chars # <<>> /\ Head(chars) = " " THEN TrimStart(Tail(chars)) ELSE chars

RECURSIVE TrimEnd(_)
TrimEnd(chars) ==
    IF chars # <<>> /\ chars[Len(chars)] = " "
    THEN TrimEnd(SubSeq(chars, 1, Len(chars) - 1)) ELSE chars

\* String.prototype.trim
Trim(v) == Text(TrimEnd(TrimStart(v.s)))

\* a faulty variant of polishDescription: no fallback to the text submitted
polishDescriptionNoFallback(text, response) ==
    IF ~response.ok \/ response.val = Undef THEN EmptyStr ELSE Trim(response.val)

\* polishDescription(text), response being what generateContent hands back:
\* response.text?.trim() || text, and text when the request failed
polishDescription(text, response) ==
    IF ~response.ok THEN text
    ELSE Or(IF response.val = Undef THEN Undef ELSE Trim(response.val), text)

\* setItems(prev => [...prev, ...processedItems]), which a throw of the map
\* callback leaves uncalled: threw tells whether it threw
AppendProcessed(prev, processedItems) ==
    IF \E i \in 1..Len(processedItems) : processedItems[i] = TypeError
    THEN [threw |-> TRUE, items |-> prev]
    ELSE [threw |-> FALSE, items |-> prev \o processedItems]

\* handleAIGeneratedItems(newItems), ids being the random ids drawn
handleAIGeneratedItems(prev, newItems, ids) ==
    AppendProcessed(prev, [i \in 1..Len(newItems) |->
                              AIRecordToItem(newItems[i], ids[i], Undef)])

\* a faulty variant of AfterResponse: a failed call commits an item
AfterResponsePartial(prev, response, ids) ==
    IF ~response.ok
    THEN [threw |-> TRUE, items |-> Append(prev, NewItem(ids[1], "service"))]
    ELSE handleAIGeneratedItems(prev, response.val, ids)

\* const items = await analyzeWorkNotes(input); onAddItems(items), and
\* const extractedItems = await parseInvoicePDF(base64Data);
\* handleAIGeneratedItems(extractedItems): a rejected call throws at the await
AfterResponse(prev, response, ids) ==
    IF ~response.ok THEN [threw |-> TRUE, items |-> prev]
    ELSE handleAIGeneratedItems(prev, response.val, ids)

\* the texts the polish service answers with
PolishTexts == {Undef, Text(<<" ">>), Text(<<" ", "D", "e", "c", "k", " ">>)}

PolishResponses == {Response(FALSE, Undef)} \cup {Response(TRUE, t) : t \in PolishTexts}

\* a record whose date is a number, which normalizeDateToISO cannot match
undatedRecord ==
    [type |-> Text(serviceWord), date |-> Int2Num(5), description |-> Undef,
     hours |-> Undef, rate |-> Undef, amount |-> Int2Num(130)]

\* what the notes analysis and the PDF extraction answer with: a failure, no
\* record, one record
AiResponses ==
    {Response(FALSE, <<>>), Response(TRUE, <<>>), Response(TRUE, <<undatedRecord>>),
     Response(TRUE, <<[type |-> Text(expenseWord), date |-> Undef,
                       description |-> Undef, hours |-> Undef, rate |-> Undef,
                       amount |-> Int2Num(45)]>>)}

\* the rows Papa.parse hands to complete
CsvResults ==
    {<<>>, <<CsvRow("lower", Undef, Undef, siteConsultation, Undef, Undef, Str(130, 1))>>}

\* the call c is started beside fewer than max calls in flight
StartedBelow(c, max) ==
    /\ Cardinality(pending) < max
    /\ c \notin pending
    /\ pending' = pending \cup {c}
    /\ outcome' = NoOutcome
    /\ UNCHANGED <<items, rendered, call, ret>>

Started(c) == StartedBelow(c, MaxPending)

\* what a settled call delivers to its caller, external being what the
\* service did
Settled(c, ok, external) ==
    Outcome(c.kind, IF ok THEN "resolved" ELSE "rejected", external, c.id, c.text)

\* what the service did: the request failed, or it answered
Answered(response) == IF response.ok THEN "ok" ELSE "failed"

\* what the polish service did: the request failed, it answered with no text
\* or with blanks only, or it answered with a text
PolishAnswered(response) ==
    IF ~response.ok THEN "failed"
    ELSE IF ~Truthy(Trim(response.val)) THEN "empty" ELSE "ok"

\* React renders the state a callback outside its events has set
Render ==
    /\ rendered # items
    /\ rendered' = items
    /\ outcome' = NoOutcome
    /\ UNCHANGED <<items, pending, busy, call, ret>>

\* handleCSVImport with a file chosen: Papa.parse(file, ...)
StartCSV ==
    /\ Started(Call("csv", "", EmptyStr, 0))
    /\ UNCHANGED busy

\* the complete callback of Papa.parse
CSVArrives ==
    \E c \in pending : \E rows \in CsvResults : \E id \in RandomIds :
        /\ c.kind = "csv"
        /\ items' = items \o [i \in 1..Len(rows) |-> CSVRowToItem(rows[i], id, Undef)]
        /\ Bounded(items')
        /\ pending' = pending \ {c}
        /\ outcome' = Settled(c, TRUE, "ok")
        /\ UNCHANGED <<rendered, busy, call, ret>>

\* handleAnalyze up to the await: setIsAnalyzing(true), analyzeWorkNotes(input)
StartNotes ==
    /\ "notes" \notin busy
    /\ Started(Call("notes", "", EmptyStr, 0))
    /\ busy' = busy \cup {"notes"}

\* handleAnalyze from the await on: try, catch and finally
NotesSettles ==
    \E c \in pending : \E response \in AiResponses : \E id \in RandomIds :
      \E after \in {AfterResponse(items, response, <<id>>)} :
            /\ c.kind = "notes"
            /\ items' = after.items
            /\ Bounded(items')
            /\ pending' = pending \ {c}
            /\ busy' = busy \ {"notes"}
            /\ outcome' = Settled(c, ~after.threw, Answered(response))
            /\ UNCHANGED <<rendered, call, ret>>

\* handlePDFImport with a file chosen, up to the await of reader.onload:
\* setIsPdfLoading(true), parseInvoicePDF(base64Data)
StartPDF ==
    /\ "pdf" \notin busy
    /\ Started(Call("pdf", "", EmptyStr, retries))
    /\ busy' = busy \cup {"pdf"}

\* retryOperation: the operation failed and retries are left
PDFAttemptFails ==
    \E c \in pending :
        /\ c.kind = "pdf"
        /\ c.retries > 0
        /\ pending' = (pending \ {c}) \cup {[c EXCEPT !.retries = c.retries - 1]}
        /\ outcome' = NoOutcome
        /\ UNCHANGED <<items, rendered, busy, call, ret>>

\* retryOperation: the operation failed and retries <= 0, or the operation
\* succeeded; reader.onload from the await on, whose setIsPdfLoading(false) a
\* throw leaves out
PDFSettles ==
    \E c \in pending : \E response \in AiResponses : \E id \in RandomIds :
      \E after \in {AfterResponse(items, response, <<id>>)} :
            /\ c.kind = "pdf"
            /\ ~response.ok => c.retries <= 0
            /\ items' = after.items
            /\ Bounded(items')
            /\ pending' = pending \ {c}
            /\ busy' = IF after.threw THEN busy ELSE busy \ {"pdf"}
            /\ outcome' = Settled(c, ~after.threw, Answered(response))
            /\ UNCHANGED <<rendered, call, ret>>

\* the polish button of a rendered row: handlePolishDescription(item.id,
\* item.description) up to the await
StartPolishBelow(max) ==
    \E i \in 1..Len(rendered) :
        LET text == rendered[i].description
        IN  IF ~Truthy(Trim(text)) THEN UNCHANGED vars
            ELSE /\ StartedBelow(Call("polish", rendered[i].id, text, 0), max)
                 /\ UNCHANGED busy

StartPolish == StartPolishBelow(MaxPending)

\* handlePolishDescription from the await on
PolishSettles ==
    \E c \in pending : \E response \in PolishResponses :
      \E polished \in {polishDescription(c.text, response)} :
            /\ c.kind = "polish"
            /\ items' = handleItemChange(items, c.id, "description", polished)
            /\ pending' = pending \ {c}
            /\ outcome' = Settled(c, TRUE, PolishAnswered(response))
            /\ UNCHANGED <<rendered, busy, call, ret>>

AsyncNext ==
    \/ AddItem
    \/ DeleteItem
    \/ EditText
    \/ Render
    \/ StartCSV
    \/ CSVArrives
    \/ StartNotes
    \/ NotesSettles
    \/ StartPDF
    \/ PDFAttemptFails
    \/ PDFSettles
    \/ StartPolish
    \/ PolishSettles

SpecAsync == Init /\ [][AsyncNext]_vars

----------------------------------------------------------------------------
(* The claims about the external calls *)

\* the step removes the items of one id and keeps the others in their order
DeletesOne == \E i \in 1..Len(items) : items' = handleDeleteItem(items, items[i].id)

\* the step appends items and keeps every item it found, position and fields
AppendsOnly == Len(items') > Len(items) /\ SubSeq(items', 1, Len(items)) = items

\* the step leaves every item at its position
KeepsEveryItem ==
    /\ Len(items') = Len(items)
    /\ \A j \in 1..Len(items) : items'[j].id = items[j].id

\* C16: a step in which an import, notes or PDF result arrives appends its
\* items and keeps every item present, position and field values; and no step
\* of any interleaving of arrivals with manual adds, edits and deletes loses
\* an item: a step deletes the items of one id, or appends and keeps every
\* item it found, or leaves every item at its position
C16_ArrivalsAppendOnly ==
    [][/\ outcome'.kind \in {"csv", "notes", "pdf"} =>
              Len(items') >= Len(items) /\ SubSeq(items', 1, Len(items)) = items
       /\ DeletesOne \/ AppendsOnly \/ KeepsEveryItem]_vars

\* C17: a step in which the notes analysis fails, or the PDF extraction fails
\* with no retry left, changes no item and delivers a rejection; a step that
\* delivers a result, empty or not, is the step of a call that succeeded
C17_FailureLeavesItems ==
    [][outcome'.kind \in {"notes", "pdf"} =>
          /\ outcome'.external = "failed" =>
                /\ outcome'.result = "rejected"
                /\ items' = items
                /\ \E c \in pending \ pending' :
                      c.kind = outcome'.kind /\ c.retries = 0
          /\ outcome'.result = "rejected" => items' = items
          /\ outcome'.result = "resolved" => outcome'.external = "ok"]_vars

\* the PDF extraction has failed with no retry left while the collection held
\* two items
C17_Witness ==
    /\ outcome.kind = "pdf"
    /\ outcome.external = "failed"
    /\ outcome.result = "rejected"
    /\ Len(items) = 2

\* the polish call that settles in the step
SettledPolish == {c \in pending \ pending' : c.kind = "polish"}

\* C18: a polish call always resolves; when the service failed or answered
\* with no text or blank text, the step sets the description of the items of
\* the call's id to the text submitted and changes nothing else; and no polish
\* call is started with a text that is empty or blank
C18_PolishFallsBack ==
    [][/\ \A c \in SettledPolish :
            /\ outcome'.kind = "polish" /\ outcome'.result = "resolved"
            /\ Len(items') = Len(items)
            /\ \A j \in 1..Len(items) :
                  /\ \A f \in DOMAIN items[j] \ {"description"} :
                        items'[j][f] = items[j][f]
                  /\ items[j].id # c.id => items'[j] = items[j]
                  /\ items[j].id = c.id /\ outcome'.external \in {"failed", "empty"} =>
                        items'[j].description = c.text
       /\ \A c \in pending' \ pending :
            c.kind = "polish" => Truthy(Trim(c.text))]_vars

\* a polish call has failed after the user had changed the description it was
\* started with: the description is the text submitted again
C18_Witness ==
    /\ outcome.kind = "polish"
    /\ outcome.external = "failed"
    /\ outcome.text = residentialBuild
    /\ \E j \in 1..Len(items) :
          /\ items[j].id = outcome.id
          /\ items[j].description = outcome.text
          /\ Len(rendered) >= j
          /\ rendered[j].description = Text(<<" ">>)

----------------------------------------------------------------------------
(* The claims about the ids of the collection *)

\* C19: the items of the collection have pairwise distinct ids: no id drawn
\* for a new item is the id of an item the collection holds
C19_DistinctIds ==
    \A i, j \in 1..Len(items) : i # j => items[i].id # items[j].id

----------------------------------------------------------------------------
(* The claims about the totals of the collection *)

\* a >= b on JavaScript numbers: FALSE when either is NaN
Geq(a, b) == ToNumber(a).k # "nan" /\ ToNumber(b).k # "nan" /\ ~Less(a, b)

\* clientToPay >= gross >= net whenever gst and tax are >= 0
Ordered(t) ==
    Geq(t.gst, Zero) /\ Geq(t.tax, Zero) =>
        Geq(t.clientToPay, t.gross) /\ Geq(t.gross, t.net)

\* C21: the totals const totals = calculateTotals(items) of every collection
\* the form holds, and of every collection calculateTotals is applied to,
\* satisfy clientToPay >= gross >= net when gst and tax are both >= 0
C21_TotalsOrdered ==
    /\ Ordered(calculateTotals(items))
    /\ Returned("calculateTotals") => Ordered(ret.val)

----------------------------------------------------------------------------
(* getRowValue applied to sample rows *)

\* a sample row has at most MaxColumns columns
MaxColumns == 2

\* the column names of the sample rows: spellings of two amount aliases and
\* of one category alias, and a name that is no alias
KeySamples ==
    {<<"a", "m", "o", "u", "n", "t">>, <<"A", "m", "o", "u", "n", "t">>,
     <<"A", "M", "O", "U", "N", "T">>, <<"t", "o", "t", "a", "l">>,
     <<"T", "o", "t", "a", "l">>, <<"T", "y", "p", "e">>, <<"r", "e", "f">>}

\* the cells of the sample rows: Papa.parse hands every cell as a string
CellSamples == {EmptyStr, Str(10, 1), Str(20, 1)}

\* the rows of at most MaxColumns columns of distinct names
RowSamples ==
    {row \in SeqsUpTo([key : KeySamples, val : CellSamples], MaxColumns) :
        \A i, j \in 1..Len(row) : i # j => row[i].key # row[j].key}

AliasCalls ==
    {[fn |-> "getRowValue", args |-> <<row, candidates>>] :
        row \in RowSamples, candidates \in {amountAliases, typeAliases}}

AliasInit ==
    /\ call \in AliasCalls
    /\ ret = NoRet
    /\ items = <<>>
    /\ rendered = <<>>
    /\ pending = {}
    /\ busy = {}
    /\ outcome = NoOutcome

ApplyGetRowValue ==
    /\ call.fn = "getRowValue"
    /\ ~ret.done
    /\ ret' = [done |-> TRUE, val |-> getRowValue(call.args[1], call.args[2])]
    /\ UNCHANGED <<form, call>>

AliasNext == ApplyGetRowValue

SpecAlias == AliasInit /\ [][AliasNext]_vars

\* the non-empty values of the columns whose name is alias up to case
AliasValues(row, alias) ==
    {row[i].val : i \in {j \in 1..Len(row) :
        LowerChars(row[j].key) = LowerChars(alias) /\ row[j].val # EmptyStr}}

\* C22: getRowValue gives a value of the first alias, in the listed order,
\* that has a non-empty value under a column name equal to it up to case, and
\* gives undefined only when no alias has one
C22_FirstAliasWins ==
    Returned("getRowValue") =>
        LET row == call.args[1]
            candidates == call.args[2]
            found == {i \in 1..Len(candidates) : AliasValues(row, candidates[i]) # {}}
        IN  IF found = {} THEN ret.val = Undef
            ELSE LET first == CHOOSE i \in found : \A j \in found : i <= j
                 IN  ret.val \in AliasValues(row, candidates[first])

----------------------------------------------------------------------------
(* retryOperation: the attempts of an operation and the waits between them *)

\* retryOperation is called with 0 to MaxRetries retries
MaxRetries == 4

\* delay = 1000, the default of retryOperation
delay == 1000

\* the delays retryOperation is called with
DelaySamples == {delay, 500, 1}

\* what an attempt can resolve with
AttemptValues == {<<>>, <<undatedRecord>>}

\* what an attempt settles with: the value it resolves with, or the error it
\* rejects with, which is the number of the attempt
Attempt(ok, val, error) == [ok |-> ok, val |-> val, error |-> error]

\* a faulty variant of NextDelay: the delay is not doubled
NextDelaySame(d) == d

\* delay * 2
NextDelay(d) == d * 2

\* retryOperation(operation, retries, delay) being called: args are the
\* arguments of the first call, retries and delay those of the current one,
\* attempts counts the calls of operation, last is what the last one settled
\* with, waits lists the timeouts waited for
RetryCalls ==
    {[fn |-> "retryOperation", args |-> <<n, d>>, retries |-> n, delay |-> d,
      attempts |-> 0, last |-> Attempt(TRUE, <<>>, 0), waits |-> <<>>] :
        n \in 0..MaxRetries, d \in DelaySamples}

RetryInit ==
    /\ call \in RetryCalls
    /\ ret = NoRet
    /\ items = <<>>
    /\ rendered = <<>>
    /\ pending = {}
    /\ busy = {}
    /\ outcome = NoOutcome

\* return await operation(): the attempt resolves
AttemptSucceeds ==
    \E v \in AttemptValues :
        /\ call.fn = "retryOperation"
        /\ ~ret.done
        /\ call' = [call EXCEPT !.attempts = @ + 1, !.last = Attempt(TRUE, v, 0)]
        /\ ret' = [done |-> TRUE, val |-> Attempt(TRUE, v, 0)]
        /\ UNCHANGED form

\* the catch: the attempt rejects with an error, here the number of the
\* attempt; with retries <= 0 the error is thrown, otherwise the timeout is
\* waited for and retryOperation(operation, retries - 1, delay * 2) is called
AttemptFails ==
    LET error == Attempt(FALSE, <<>>, call.attempts + 1)
    IN  /\ call.fn = "retryOperation"
        /\ ~ret.done
        /\ IF call.retries <= 0
           THEN /\ call' = [call EXCEPT !.attempts = @ + 1, !.last = error]
                /\ ret' = [done |-> TRUE, val |-> error]
           ELSE /\ call' = [call EXCEPT !.attempts = @ + 1, !.last = error,
                                        !.waits = Append(@, call.delay),
                                        !.retries = @ - 1,
                                        !.delay = NextDelay(@)]
                /\ UNCHANGED ret
        /\ UNCHANGED form

RetryNext == AttemptSucceeds \/ AttemptFails

SpecRetry == RetryInit /\ [][RetryNext]_vars

\* every attempt terminates: an attempt that can settle does settle
SpecRetryFair == SpecRetry /\ WF_vars(RetryNext)

\* retryOperation called with retries = N: at most N + 1 attempts; the k-th
\* wait is delay * 2^(k-1); once it has settled, it has settled with what the
\* last attempt settled with, which is a value, or the error of attempt N + 1
RetryBounded ==
    call.fn = "retryOperation" =>
        /\ call.attempts <= call.args[1] + 1
        /\ \A k \in 1..Len(call.waits) : call.waits[k] = call.args[2] * 2^(k - 1)
        /\ Len(call.waits) = IF ret.done THEN call.attempts - 1 ELSE call.attempts
        /\ ret.done =>
              /\ ret.val = call.last
              /\ ~ret.val.ok => call.attempts = call.args[1] + 1
                                /\ ret.val.error = call.attempts

\* C25: retryOperation with retries = N calls the operation at most N + 1
\* times, stops at the first attempt that succeeds and returns its value,
\* waits delay * 2^k before the (k+1)-th retry, rejects with the error of the
\* last attempt once N + 1 attempts have failed, and terminates when every
\* attempt terminates
C25_RetryBounded == []RetryBounded /\ <>(call.fn = "retryOperation" => ret.done)

\* parseInvoicePDF's defaults: four attempts have failed after waits of 1000,
\* 2000 and 4000 ms, and the fourth error is thrown
C25_Witness ==
    /\ call.fn = "retryOperation"
    /\ call.args = <<retries, delay>>
    /\ call.attempts = 4
    /\ call.waits = <<1000, 2000, 4000>>
    /\ ret.done /\ ret.val = Attempt(FALSE, <<>>, 4)

----------------------------------------------------------------------------
(* The claims about the numbers of the collection *)

\* the value is a number, or the text of a number an input left in the field,
\* that is finite and not negative
NonNegative(v) == ToNumber(v).k = "num" /\ ToNumber(v).n >= 0

\* C26: in every state the form reaches, the hours, the rate and the amount of
\* every item are non-negative numbers
C26_NumbersNonNegative ==
    \A i \in 1..Len(items) :
        NonNegative(items[i].hours) /\ NonNegative(items[i].rate)
        /\ NonNegative(items[i].amount)

----------------------------------------------------------------------------
(* The busy flags of the notes analysis and of the PDF import *)

BusyNext ==
    \/ AddItem
    \/ DeleteItem
    \/ StartNotes
    \/ NotesSettles
    \/ StartPDF
    \/ PDFAttemptFails
    \/ PDFSettles
    \/ Render

\* every external call settles: the notes analysis resolves or rejects, every
\* attempt of the PDF extraction resolves or rejects
SpecBusy ==
    /\ Init
    /\ [][BusyNext]_vars
    /\ WF_vars(NotesSettles)
    /\ WF_vars(PDFAttemptFails \/ PDFSettles)

\* C27: a busy flag that is set is cleared again: isAnalyzing after the
\* notes analysis has settled, isPdfLoading after the PDF extraction has
\* settled, whether the call succeeded or failed
C27_BusyCleared ==
    /\ ("notes" \in busy) ~> ("notes" \notin busy)
    /\ ("pdf" \in busy) ~> ("pdf" \notin busy)

----------------------------------------------------------------------------
(* Polish calls in flight together *)

\* at most MaxPolish polish calls are in flight
MaxPolish == 2

\* the polish button of a rendered row, beside other polish calls
StartPolishBeside == StartPolishBelow(MaxPolish)

PolishNext ==
    \/ AddItem
    \/ DeleteItem
    \/ ToggleType
    \/ Render
    \/ StartPolishBeside
    \/ PolishSettles

SpecPolish == Init /\ [][PolishNext]_vars

\* the items after the polish call c has settled with response
Polished(its, c, response) ==
    handleItemChange(its, c.id, "description", polishDescription(c.text, response))

\* the step in which the result of a polish call arrives changes the
\* description of the items of the call's id and nothing else; when no item
\* has the id, it changes nothing
PolishArrivalFrame ==
    \A c \in SettledPolish :
        /\ Len(items') = Len(items)
        /\ \A j \in 1..Len(items) :
              /\ items[j].id # c.id => items'[j] = items[j]
              /\ \A f \in DOMAIN items[j] \ {"description"} : items'[j][f] = items[j][f]
        /\ (\A j \in 1..Len(items) : items[j].id # c.id) => items' = items

\* two polish calls in flight for different items give the same collection
\* in either order of arrival
PolishCommutes ==
    \A c1, c2 \in {c \in pending : c.kind = "polish"} :
        c1.id # c2.id =>
            \A r1, r2 \in PolishResponses :
                Polished(Polished(items, c1, r1), c2, r2)
                    = Polished(Polished(items, c2, r2), c1, r1)

\* C28: when the result of a polish call for an item arrives, only the
\* description of that item changes, its other fields keeping the values they
\* have at arrival and the other items staying as they are; the results of
\* calls in flight for different items give the same collection in either
\* order; and a result for an item deleted meanwhile changes nothing
C28_PolishIndependent == [][PolishArrivalFrame]_vars /\ []PolishCommutes

\* the result of a polish call has arrived for an item whose type was switched
\* while the call was in flight, beside a call in flight for another item
C28_Witness ==
    /\ outcome.kind = "polish"
    /\ outcome.external = "ok"
    /\ \E c \in pending : c.kind = "polish" /\ c.id # outcome.id
    /\ \E j \in 1..Len(items) :
          /\ items[j].id = outcome.id
          /\ items[j].type = "expense"
          /\ items[j].description = Text(<<"D", "e", "c", "k">>)
          /\ outcome.text = residentialBuild

\* the result of a polish call has arrived for an item that was deleted
\* while the call was in flight
C28_DeletedWitness ==
    /\ outcome.kind = "polish"
    /\ \A j \in 1..Len(items) : items[j].id # outcome.id

-----------------------------------------------------------------------------
(* The invoice number: generateInvoiceNumber and syncInvoiceCounter over the *)
(* counter kept in localStorage                                              *)

\* the calendar days the application lives through, dateStr of the first is 1
MaxDay == 2

\* the numbers generated in one behaviour
MaxGenerated == 3

\* the counts of the invoice numbers typed in
CountSamples == {0, 2, 999}

\* what localStorage.getItem(STORAGE_KEY) parses to; date 0 stands for null,
\* nothing stored
Stored(date, count) == [date |-> date, count |-> count]

NothingStored == Stored(0, 0)

\* String(nextCount).padStart(3, '0'): the number of digits written
PadStart3(count) == IF count < 10 ^ 3 THEN 3 ELSE 4

\* the text `INV-${dateStr}-${digits}`: its date, the count its digits read
\* as, and how many digits there are; date 0 stands for any other text
InvoiceNumber(date, count, width) == [date |-> date, count |-> count, width |-> width]

\* the regex /^INV-(\d{8})-(\d{3})$/
Matches(number) == number.date # 0 /\ number.width = 3

\* the invoice numbers the number field is set to: generated-looking ones,
\* one with four digits, one with two, and a text that is no invoice number
NumberSamples ==
    {InvoiceNumber(d, c, 3) : d \in 1..MaxDay, c \in CountSamples}
        \cup {InvoiceNumber(1, 5, 4), InvoiceNumber(MaxDay, 5, 2),
              InvoiceNumber(0, 0, 0)}

\* generateInvoiceNumber() on the day todayStr: the count stored and the
\* number returned
generateInvoiceNumber(stored, todayStr) ==
    LET nextCount == IF stored.date # 0 /\ stored.date = todayStr
                     THEN stored.count + 1
                     ELSE 1
    IN  [localStorage |-> Stored(todayStr, nextCount),
         number |-> InvoiceNumber(todayStr, nextCount, PadStart3(nextCount))]

\* a faulty variant of syncInvoiceCounter: the count typed in is stored
\* whether or not it is higher than the stored one
syncInvoiceCounterAlways(stored, todayStr, invoiceNumber) ==
    IF Matches(invoiceNumber) /\ invoiceNumber.date = todayStr
    THEN Stored(todayStr, invoiceNumber.count)
    ELSE stored

\* syncInvoiceCounter(invoiceNumber) on the day todayStr: what is stored
\* afterwards
syncInvoiceCounter(stored, todayStr, invoiceNumber) ==
    IF Matches(invoiceNumber) /\ invoiceNumber.date = todayStr
    THEN LET currentCount == invoiceNumber.count
             storedCount == IF stored.date # 0 /\ stored.date = todayStr
                            THEN stored.count
                            ELSE 0
         IN  IF currentCount > storedCount
             THEN Stored(todayStr, currentCount)
             ELSE stored
    ELSE stored

\* the application and its browser: today's dateStr, the stored counter,
\* details.number, the numbers generateInvoiceNumber returned, in order, and
\* for each day the greatest count of the invoice numbers of that day that
\* were passed to syncInvoiceCounter on that day, 0 when there were none
CounterState(today, stored, number, generated, synced) ==
    [fn |-> "App", today |-> today, localStorage |-> stored, number |-> number,
     generated |-> generated, synced |-> synced]

\* nothing was passed to syncInvoiceCounter yet
NothingSynced == [d \in 1..MaxDay |-> 0]

\* the effect on details.number: syncInvoiceCounter(details.number)
NumberEffect(c, stored, number, generated) ==
    CounterState(c.today, syncInvoiceCounter(stored, c.today, number), number,
                 generated,
                 IF Matches(number) /\ number.date = c.today
                    /\ number.count > c.synced[c.today]
                 THEN [c.synced EXCEPT ![c.today] = number.count]
                 ELSE c.synced)

\* the page is opened in a browser that has stored nothing: useState's
\* initializer generates the first number, and the effect passes it on
CounterInit ==
    /\ \E g \in {generateInvoiceNumber(NothingStored, 1)} :
          call = NumberEffect(CounterState(1, NothingStored, g.number, <<>>, NothingSynced),
                              g.localStorage, g.number, <<g.number>>)
    /\ ret = NoRet
    /\ items = <<>>
    /\ rendered = <<>>
    /\ pending = {}
    /\ busy = {}
    /\ outcome = NoOutcome

\* the page is opened again: useState's initializer and the effect
AppLoads ==
    /\ call.fn = "App"
    /\ Len(call.generated) < MaxGenerated
    /\ \E g \in {generateInvoiceNumber(call.localStorage, call.today)} :
          call' = NumberEffect(call, g.localStorage, g.number,
                               Append(call.generated, g.number))
    /\ UNCHANGED <<ret, form>>

\* handleNewInvoice, confirmed or not, and the effect on the new number
handleNewInvoice ==
    /\ call.fn = "App"
    /\ Len(call.generated) < MaxGenerated
    /\ \E confirm \in BOOLEAN :
          IF confirm
          THEN \E g \in {generateInvoiceNumber(call.localStorage, call.today)} :
                  call' = NumberEffect(call, g.localStorage, g.number,
                                       Append(call.generated, g.number))
          ELSE UNCHANGED call
    /\ UNCHANGED <<ret, form>>

\* the number field is edited, or a saved invoice is loaded: details.number
\* changes and the effect runs
NumberChanges ==
    /\ call.fn = "App"
    /\ \E number \in NumberSamples :
          IF number = call.number
          THEN UNCHANGED call
          ELSE call' = NumberEffect(call, call.localStorage, number,
                                    call.generated)
    /\ UNCHANGED <<ret, form>>

\* midnight passes
DayChanges ==
    /\ call.fn = "App"
    /\ call.today < MaxDay
    /\ call' = [call EXCEPT !.today = @ + 1]
    /\ UNCHANGED <<ret, form>>

CounterNext == AppLoads \/ handleNewInvoice \/ NumberChanges \/ DayChanges

SpecCounter == CounterInit /\ [][CounterNext]_vars

\* today's stored counter: 0 when nothing is stored for today
CounterOf(c) ==
    IF c.localStorage.date = c.today THEN c.localStorage.count ELSE 0

\* the elements of a sequence
Elements(seq) == {seq[i] : i \in 1..Len(seq)}

\* the counts of the numbers generated on the day `date`
GeneratedCounts(c, date) ==
    {n.count : n \in {g \in Elements(c.generated) : g.date = date}}

\* this step generates a number
Generates == call.fn = "App" /\ Len(call'.generated) = Len(call.generated) + 1

\* the number this step generates
LastGenerated == call'.generated[Len(call'.generated)]

\* while the day stays the same, today's stored counter does not decrease
CounterKept ==
    call.fn = "App" /\ call'.today = call.today =>
        CounterOf(call') >= CounterOf(call)

\* a generated number is above every number generated earlier that day and
\* above every number of that day passed to syncInvoiceCounter before
NumberAbove ==
    Generates =>
        /\ \A count \in GeneratedCounts(call, LastGenerated.date) :
              LastGenerated.count > count
        /\ LastGenerated.count > call.synced[LastGenerated.date]

\* the first number generated on a day
FirstOfDay == Generates /\ GeneratedCounts(call, LastGenerated.date) = {}

\* C29 as stated: within one day the stored counter never decreases, every
\* generated number is above the numbers generated and synced earlier that
\* day, and the first number generated on a new day has counter 1
C29_FirstOfDayIsOne ==
    [][CounterKept /\ NumberAbove /\ (FirstOfDay => LastGenerated.count = 1)]_vars

\* C29: within one day the stored counter never decreases, every generated
\* number is above the numbers generated and synced earlier that day, and
\* the first number generated on a new day has counter 1 unless a number of
\* that day was synced before it, in which case it is one above the
\* greatest count synced
C29_CounterIncreases ==
    [][/\ CounterKept
       /\ NumberAbove
       /\ FirstOfDay =>
             LastGenerated.count = 1 + call.synced[LastGenerated.date]]_vars

\* on the second day INV-<day 2>-002 was typed in before anything was
\* generated, and the number generated after it is INV-<day 2>-003
C29_Witness ==
    /\ call.fn = "App"
    /\ call.today = 2
    /\ Len(call.generated) = 2
    /\ call.generated[1] = InvoiceNumber(1, 1, 3)
    /\ call.generated[2] = InvoiceNumber(2, 3, 3)

\* after INV-<day 1>-999 was typed in, the number generated has four digits
C29_FourDigitsWitness ==
    /\ call.fn = "App"
    /\ call.number = InvoiceNumber(1, 1000, 4)
    /\ call.localStorage = Stored(1, 1000)

-----------------------------------------------------------------------------
(* The amount of a row committed more than once *)

\* amounts that are no finite numbers
NonFiniteAmounts == {NaN, Infinity, Neg(Infinity)}

\* the rows an amount is typed into
BlurStarts == {InitialItems, <<NewItem("r1", "expense")>>}

\* an amount was typed into the amount input of a row, or the row holds an
\* amount that is not finite; call keeps the keystroke
BlurInit ==
    /\ \E start \in BlurStarts :
          \/ \E value \in {Str(n, 2) : n \in -MaxTargetH..MaxTargetH} :
                /\ items = handleItemChange(start, start[1].id, "amount", value)
                /\ call = [fn |-> "handleItemChange", args |-> <<value>>]
          \/ \E amount \in NonFiniteAmounts :
                /\ items = <<[start[1] EXCEPT !.amount = amount]>>
                /\ call = [fn |-> "handleItemChange", args |-> <<amount>>]
    /\ rendered = items
    /\ pending = {}
    /\ busy = {}
    /\ outcome = NoOutcome
    /\ ret = NoRet

BlurNext == AmountBlur

SpecBlur == BlurInit /\ [][BlurNext]_vars

\* C30: committing the amount of an item is idempotent: the metrics
\* calculateMetricsFromAmount returns for an amount are the metrics it
\* returns for the amount it returned, and after a blur of the amount input
\* another blur leaves the items as they are
C30_CommitIdempotent ==
    [][/\ \A i \in 1..Len(items) :
             LET metrics == calculateMetricsFromAmount(items[i].amount)
             IN  calculateMetricsFromAmount(metrics.amount) = metrics
       /\ \A i \in 1..Len(items') :
             handleAmountBlur(items', items'[i].id) = items']_vars

\* 62.5 was typed into the amount of the opening row and the blur has made it
\* 1 hour at 60
C30_Witness ==
    /\ call.fn = "handleItemChange"
    /\ call.args = <<Str(125, 2)>>
    /\ Len(items) = 1
    /\ items[1].type = "service"
    /\ items[1].hours = One
    /\ items[1].rate = Int2Num(60)
    /\ items[1].amount = Int2Num(60)

====
